---- MODULE Spec2Model ----
(***************************************************************************)
(* Dyslexia-Web-Reader: the article extractor (lib/readability,           *)
(* modules/extractor) and the allowlist HTML sanitiser (lib/sanitize).     *)
(*                                                                         *)
(* DOM nodes are values:                                                   *)
(*   text     [type |-> "text",    data |-> a string]                      *)
(*   comment  [type |-> "comment", data |-> a string]                      *)
(*   element  [type |-> "element", tag, attrs, kids]                       *)
(* attrs is the ordered attribute list, each [name, value]; an attribute   *)
(* value is a sequence of strings: a URL one character per entry, so that  *)
(* trim(), toLowerCase() and startsWith() are computed on it; any other    *)
(* value one word or one white-space character per entry.                  *)
(* An HTML string is a sequence of tokens (open tag, close tag, text,      *)
(* comment); Serialize and ParseBody convert between the two.              *)
(***************************************************************************)
EXTENDS Integers, Sequences, FiniteSets, TLC

VARIABLES
    sanIn,      \* sanitizeHtml: the dirtyHtml argument (token sequence)
    sanBody,    \* sanitizeHtml: doc.body's child list
    sanPc,      \* sanitizeHtml: "call", "parsed", "cleaned", "returned"
    sanRet,     \* sanitizeHtml: the returned string
    sanLog,     \* the completed calls: <<[arg, parsed, ret]>>
    docs,       \* the documents of the page, by handle: "live" and "clone"
    page0,      \* the page's document when the content script was injected
    extPc,      \* extractArticle: "start", "parsed", "caught", "done"
    rdResult,   \* parseReadability's result
    rdSegments, \* the text nodes rdResult.textContent is made of
    extRet,     \* extractArticle's result
    policy,     \* lib/sanitize's module-level ALLOWED_TAGS and ALLOWED_ATTRS
    cmp,        \* one (tag, attribute) pair put to both variants of lib/sanitize
    job,        \* a call of generateReadingPlan, simplifyChunk or explainText
    net,        \* the requests sent with fetch so far: <<[url, key]>>
    storage,    \* chrome.storage.local
    ops,        \* the message handlers of the service worker in progress
    replies,    \* the responses the service worker has sent
    tab,        \* the content script's window, listeners and messages
    articleCache, \* the service worker's in-memory Map of articles, by id
    reader,     \* the reader page: its module-level variables and its view
    tts         \* modules/tts: its module-level variables and the audio

sanVars == <<sanIn, sanBody, sanPc, sanRet, sanLog>>

extVars == <<docs, page0, extPc, rdResult, rdSegments, extRet>>

bgVars == <<job, net, storage, ops, replies, tab>>

uiVars == <<articleCache, reader, tts>>

vars == <<sanIn, sanBody, sanPc, sanRet, sanLog,
          docs, page0, extPc, rdResult, rdSegments, extRet, policy, cmp,
          job, net, storage, ops, replies, tab,
          articleCache, reader, tts>>

-----------------------------------------------------------------------------
(* Bounds *)

\* Largest number of nodes in a generated HTML fragment.
MaxNodes == 3

\* Number of sanitizeHtml calls chained on one input (2: output fed back).
MaxCalls == 2

\* Largest number of blocks in the body of a generated page.
MaxBlocks == 2
\* the longest list of blocks in the body of a locator page
MaxLocBlocks == 2

\* the longest page URL, in code units
MaxUrlLen == 5

-----------------------------------------------------------------------------
(* Strings as character sequences *)

WhiteSpace == {" ", "\t", "\n"}

\* String.prototype.trim
RECURSIVE TrimLeft(_)
TrimLeft(s) ==
    IF s # <<>> /\ Head(s) \in WhiteSpace THEN TrimLeft(Tail(s)) ELSE s

RECURSIVE TrimRight(_)
TrimRight(s) ==
    IF s # <<>> /\ s[Len(s)] \in WhiteSpace
    THEN TrimRight(SubSeq(s, 1, Len(s) - 1)) ELSE s

Trim(s) == TrimRight(TrimLeft(s))

\* String.prototype.toLowerCase, on the letters that occur in the model
LowerChar(c) ==
    CASE c = "A" -> "a" [] c = "C" -> "c" [] c = "I" -> "i" [] c = "J" -> "j"
      [] c = "P" -> "p" [] c = "R" -> "r" [] c = "S" -> "s" [] c = "T" -> "t"
      [] c = "V" -> "v" [] OTHER -> c

ToLowerCase(s) == [i \in 1..Len(s) |-> LowerChar(s[i])]

\* String.prototype.startsWith
StartsWith(s, prefix) ==
    Len(s) >= Len(prefix) /\ SubSeq(s, 1, Len(prefix)) = prefix

JavascriptScheme == <<"j", "a", "v", "a", "s", "c", "r", "i", "p", "t", ":">>

-----------------------------------------------------------------------------
(* DOM nodes *)

Text(s) == [type |-> "text", data |-> s]
Comment(s) == [type |-> "comment", data |-> s]
Element(t, a, k) == [type |-> "element", tag |-> t, attrs |-> a, kids |-> k]
Attr(n, v) == [name |-> n, value |-> v]

IsElement(n) == n.type = "element"

\* text data made of white space only (text data is a TLA+ string, which has
\* a length and can be concatenated, but whose characters cannot be read)
BlankText == {"", " ", "\n", "\n "}
IsBlank(s) == s \in BlankText

hasAttribute(el, name) == \E i \in 1..Len(el.attrs) : el.attrs[i].name = name

getAttribute(el, name) ==
    LET i == CHOOSE i \in 1..Len(el.attrs) : el.attrs[i].name = name
    IN el.attrs[i].value

removeAttribute(el, name) ==
    [el EXCEPT !.attrs = SelectSeq(@, LAMBDA a : a.name # name)]

setAttribute(el, name, value) ==
    IF hasAttribute(el, name)
    THEN [el EXCEPT !.attrs =
            [i \in 1..Len(@) |-> IF @[i].name = name THEN Attr(name, value) ELSE @[i]]]
    ELSE [el EXCEPT !.attrs = Append(@, Attr(name, value))]

\* Node.textContent of a child list: the text descendants, concatenated
RECURSIVE textContent(_)
textContent(kids) ==
    IF kids = <<>> THEN ""
    ELSE LET n == Head(kids)
             own == CASE n.type = "text" -> n.data
                      [] n.type = "comment" -> ""
                      [] OTHER -> textContent(n.kids)
         IN own \o textContent(Tail(kids))

\* every node below a child list, in document order
RECURSIVE Descendants(_)
Descendants(kids) ==
    IF kids = <<>> THEN <<>>
    ELSE LET n == Head(kids)
         IN <<n>> \o (IF IsElement(n) THEN Descendants(n.kids) ELSE <<>>)
                  \o Descendants(Tail(kids))

-----------------------------------------------------------------------------
(* HTML strings: innerHTML and the HTML parser *)

VoidTags == {"br", "hr", "img", "input", "meta", "link"}

\* elements the parser puts into <head> when they come before any body content
HeadTags == {"script", "style", "title", "meta", "link", "noscript"}

OpenTok(t, a) == [k |-> "open", tag |-> t, attrs |-> a, data |-> ""]
CloseTok(t) == [k |-> "close", tag |-> t, attrs |-> <<>>, data |-> ""]
TextTok(s) == [k |-> "text", tag |-> "", attrs |-> <<>>, data |-> s]
CommentTok(s) == [k |-> "comment", tag |-> "", attrs |-> <<>>, data |-> s]

\* characters of adjacent text nodes run together in the string
JoinTokens(a, b) ==
    IF a # <<>> /\ b # <<>> /\ a[Len(a)].k = "text" /\ Head(b).k = "text"
    THEN SubSeq(a, 1, Len(a) - 1) \o <<TextTok(a[Len(a)].data \o Head(b).data)>>
            \o Tail(b)
    ELSE a \o b

\* Element.innerHTML (getter): the serialisation of a child list
RECURSIVE Serialize(_)
Serialize(kids) ==
    IF kids = <<>> THEN <<>>
    ELSE LET n == Head(kids)
             own == CASE n.type = "text" -> <<TextTok(n.data)>>
                      [] n.type = "comment" -> <<CommentTok(n.data)>>
                      [] OTHER ->
                           IF n.tag \in VoidTags
                           THEN <<OpenTok(n.tag, n.attrs)>>
                           ELSE <<OpenTok(n.tag, n.attrs)>> \o Serialize(n.kids)
                                    \o <<CloseTok(n.tag)>>
         IN JoinTokens(own, Serialize(Tail(kids)))

\* the tree builder appends character data to a preceding text node
AddFirst(n, kids) ==
    IF n.type = "text" /\ kids # <<>> /\ Head(kids).type = "text"
    THEN <<Text(n.data \o Head(kids).data)>> \o Tail(kids)
    ELSE <<n>> \o kids

\* parse the children that start at token i, up to the matching close tag
RECURSIVE ParseKids(_, _)
ParseKids(toks, i) ==
    IF i > Len(toks) THEN [kids |-> <<>>, next |-> i]
    ELSE LET t == toks[i] IN
         CASE t.k = "close" -> [kids |-> <<>>, next |-> i + 1]
           [] t.k = "text" ->
                LET r == ParseKids(toks, i + 1)
                IN [kids |-> AddFirst(Text(t.data), r.kids), next |-> r.next]
           [] t.k = "comment" ->
                LET r == ParseKids(toks, i + 1)
                IN [kids |-> <<Comment(t.data)>> \o r.kids, next |-> r.next]
           [] OTHER ->
                IF t.tag \in VoidTags
                THEN LET r == ParseKids(toks, i + 1)
                     IN [kids |-> <<Element(t.tag, t.attrs, <<>>)>> \o r.kids,
                         next |-> r.next]
                ELSE LET inner == ParseKids(toks, i + 1)
                         r == ParseKids(toks, inner.next)
                     IN [kids |-> <<Element(t.tag, t.attrs, inner.kids)>> \o r.kids,
                         next |-> r.next]

\* Before the body starts the parser keeps comments out of the body, skips
\* white space and puts script/style/... elements into <head>.
RECURSIVE BodyStart(_, _)
BodyStart(toks, i) ==
    IF i > Len(toks) THEN i
    ELSE LET t == toks[i] IN
         CASE t.k = "comment" -> BodyStart(toks, i + 1)
           [] t.k = "text" /\ IsBlank(t.data) -> BodyStart(toks, i + 1)
           [] t.k = "open" /\ t.tag \in HeadTags ->
                IF t.tag \in VoidTags THEN BodyStart(toks, i + 1)
                ELSE BodyStart(toks, ParseKids(toks, i + 1).next)
           [] OTHER -> i

\* new DOMParser().parseFromString(html, 'text/html').body, as a child list
ParseBody(html) == ParseKids(html, BodyStart(html, 1)).kids

-----------------------------------------------------------------------------
(* lib/sanitize: the allowlist sanitiser *)

\* an allowlist that lets <iframe> through as well
AllowedTagsWithIframe ==
    {"p", "br", "hr", "h1", "h2", "h3", "h4", "h5", "h6",
     "ul", "ol", "li", "blockquote", "pre", "code",
     "em", "strong", "b", "i", "u", "sub", "sup", "mark",
     "a", "img", "figure", "figcaption", "table", "thead",
     "tbody", "tr", "th", "td", "span", "div", "section", "iframe"}

\* lines 7-13
ALLOWED_TAGS ==
    {"p", "br", "hr", "h1", "h2", "h3", "h4", "h5", "h6",
     "ul", "ol", "li", "blockquote", "pre", "code",
     "em", "strong", "b", "i", "u", "sub", "sup", "mark",
     "a", "img", "figure", "figcaption", "table", "thead",
     "tbody", "tr", "th", "td", "span", "div", "section"}

\* ALLOWED_ATTRS[tag] || new Set()
ALLOWED_ATTRS(tag) ==
    CASE tag = "a" -> {"href", "title"}
      [] tag = "img" -> {"src", "alt", "title", "width", "height"}
      [] tag = "td" -> {"colspan", "rowspan"}
      [] tag = "th" -> {"colspan", "rowspan"}
      [] OTHER -> {}

\* the tags and attribute names the allowlists are read at
TagUniverse ==
    {"p", "br", "hr", "h1", "h2", "h3", "h4", "h5", "h6",
     "ul", "ol", "li", "blockquote", "pre", "code",
     "em", "strong", "b", "i", "u", "sub", "sup", "mark",
     "a", "img", "figure", "figcaption", "table", "thead",
     "tbody", "tr", "th", "td", "span", "div", "section",
     "script", "style", "iframe", "aside", "form", "foo"}

AttrUniverse ==
    {"href", "title", "src", "alt", "width", "height", "colspan", "rowspan",
     "onclick", "class", "style", "id"}

\* lines 7-20: the two module-level structures, as the module creates them
AllowlistPolicy ==
    [tags |-> {t \in TagUniverse : t \in ALLOWED_TAGS},
     attrs |-> {pr \in TagUniverse \X AttrUniverse : pr[2] \in ALLOWED_ATTRS(pr[1])}]

\* lines 50-57: remove every attribute that is not allowed on the tag
StripAttrs(el) ==
    [el EXCEPT !.attrs = SelectSeq(@, LAMBDA a : a.name \in ALLOWED_ATTRS(el.tag))]

IsJavascriptUri(v) == StartsWith(ToLowerCase(Trim(v)), JavascriptScheme)

\* lines 60-65: a javascript: href becomes "#"
FixHref(el) ==
    IF hasAttribute(el, "href") /\ IsJavascriptUri(getAttribute(el, "href"))
    THEN setAttribute(el, "href", <<"#">>)
    ELSE el

\* lines 66-71: a javascript: src is removed
FixSrc(el) ==
    IF hasAttribute(el, "src") /\ IsJavascriptUri(getAttribute(el, "src"))
    THEN removeAttribute(el, "src")
    ELSE el

\* The child list while cleanNode's forEach runs over it: each entry is a
\* child and whether it has been pushed to toRemove.
Live(kids) == [j \in 1..Len(kids) |-> [n |-> kids[j], rm |-> FALSE]]

\* a sanitiser that deletes a disallowed element with its content
UnwrapDelete(ws, i) == [ws EXCEPT ![i].rm = TRUE]

\* lines 41-48: unwrap the element at index i. Its children are inserted
\* before it, in order; the emptied element stays in the list (after them)
\* until toRemove is processed.
Unwrap(ws, i) ==
    SubSeq(ws, 1, i - 1)
        \o Live(ws[i].n.kids)
        \o <<[n |-> [ws[i].n EXCEPT !.kids = <<>>], rm |-> TRUE]>>
        \o SubSeq(ws, i + 1, Len(ws))

\* the index forEach visits after index i. childNodes is a live NodeList:
\* forEach reads the list again at every step and goes on with i + 1,
\* whatever the callback inserted.
NextIndex(ws, i) == i + 1

\* lines 33-80. cleanNode(node), on node's child list. CleanLoop is the
\* forEach callback applied from index i on.
RECURSIVE cleanNode(_), CleanLoop(_, _)
CleanLoop(ws, i) ==
    IF i > Len(ws) THEN ws
    ELSE LET child == ws[i].n IN
         CASE child.type = "element" ->
                IF child.tag \notin ALLOWED_TAGS
                THEN LET after == Unwrap(ws, i)
                     IN CleanLoop(after, NextIndex(after, i))
                ELSE LET el == FixSrc(FixHref(StripAttrs(child)))
                         done == [el EXCEPT !.kids = cleanNode(@)]
                     IN CleanLoop([ws EXCEPT ![i].n = done], NextIndex(ws, i))
           [] child.type = "comment" ->
                CleanLoop([ws EXCEPT ![i].rm = TRUE], NextIndex(ws, i))
           [] OTHER -> CleanLoop(ws, NextIndex(ws, i))

cleanNode(kids) ==
    LET ws == CleanLoop(Live(kids), 1)
        kept == SelectSeq(ws, LAMBDA w : ~w.rm)
    IN [j \in 1..Len(kept) |-> kept[j].n]

\* lines 26-31
sanitizeHtml(dirtyHtml) == Serialize(cleanNode(ParseBody(dirtyHtml)))

-----------------------------------------------------------------------------
(* lib/sanitize, the DOMPurify-backed variant: its configuration *)

\* lines 94-100
PURIFY_ALLOWED_TAGS ==
    {"p", "br", "hr", "h1", "h2", "h3", "h4", "h5", "h6",
     "ul", "ol", "li", "blockquote", "pre", "code",
     "em", "strong", "b", "i", "u", "sub", "sup", "mark",
     "a", "img", "figure", "figcaption", "table", "thead",
     "tbody", "tr", "th", "td", "span", "div", "section"}

\* line 101: one list for every tag
PURIFY_ALLOWED_ATTR ==
    {"href", "title", "src", "alt", "width", "height", "colspan", "rowspan"}

\* lines 92-102: what purify.sanitize, so configured, does to <tag attr="v">:
\* the element stays if its tag is listed, the attribute if its name is
PurifyVerdict(tag, attr) ==
    [tagKept |-> tag \in PURIFY_ALLOWED_TAGS,
     attrKept |-> tag \in PURIFY_ALLOWED_TAGS /\ attr \in PURIFY_ALLOWED_ATTR]

\* no verdict yet / no pair under comparison
NoVerdict == [tagKept |-> FALSE, attrKept |-> FALSE, none |-> TRUE]

NoPair == [tag |-> "", attr |-> "", lite |-> NoVerdict, lib |-> NoVerdict]

\* lines 33-80: what cleanNode does to <tag attr="v">x</tag>
LiteVerdict(tag, attr) ==
    LET out == cleanNode(<<Element(tag, <<Attr(attr, <<"v">>)>>, <<Text("x")>>)>>)
        kept == out # <<>> /\ IsElement(out[1]) /\ out[1].tag = tag
    IN [tagKept |-> kept, attrKept |-> kept /\ hasAttribute(out[1], attr)]

-----------------------------------------------------------------------------
(* The HTML fragments sanitizeHtml is called with *)

JsUpper == <<" ", "J", "a", "v", "a", "S", "c", "r", "i", "p", "t", ":", "x">>
JsLower == JavascriptScheme \o <<"x">>
HttpUrl == <<"h", "t", "t", "p", ":", "x">>
Handler == <<"x", "(", ")">>

\* elements generated without children
LeafElements ==
    {Element("a", <<Attr("href", JsUpper), Attr("onclick", Handler)>>, <<>>),
     Element("a", <<Attr("href", HttpUrl)>>, <<>>),
     Element("img", <<Attr("src", JsLower)>>, <<>>),
     Element("img", <<Attr("src", HttpUrl), Attr("onerror", Handler)>>, <<>>),
     Element("script", <<>>, <<Text("x")>>)}

\* tag and attributes of the elements generated with children
Shells ==
    {[tag |-> "span", attrs |-> <<>>],
     [tag |-> "span", attrs |-> <<Attr("onclick", Handler)>>],
     [tag |-> "foo", attrs |-> <<>>]}

Atoms == {Text("x"), Text("y"), Comment("c")} \cup LeafElements

\* child lists of exactly n nodes / single nodes that are the root of n nodes
RECURSIVE ForestsOfSize(_), TreesOfSize(_)
TreesOfSize(n) ==
    IF n = 0 THEN {}
    ELSE (IF n = 1 THEN Atoms ELSE {})
           \cup {Element(sh.tag, sh.attrs, f) :
                    sh \in Shells, f \in ForestsOfSize(n - 1)}

ForestsOfSize(n) ==
    IF n = 0 THEN {<<>>}
    ELSE UNION {{<<t>> \o f : t \in TreesOfSize(k), f \in ForestsOfSize(n - k)} :
                  k \in 1..n}

\* the spec's example: <aside><p>Keep me</p></aside>
AsideExample == <<Element("aside", <<>>, <<Element("p", <<>>, <<Text("Keep me")>>)>>)>>

Fragments == UNION {ForestsOfSize(n) : n \in 0..MaxNodes} \cup {AsideExample}

-----------------------------------------------------------------------------
(* Documents and selectors *)

\* An attribute value other than a URL is written one word per entry:
\* class "ad box" is <<"ad", " ", "box">>.

\* the white-space separated tokens of an attribute value
RECURSIVE SplitAcc(_, _, _)
SplitAcc(s, cur, acc) ==
    LET flushed == IF cur = <<>> THEN acc ELSE Append(acc, cur) IN
    IF s = <<>> THEN flushed
    ELSE IF Head(s) \in WhiteSpace THEN SplitAcc(Tail(s), <<>>, flushed)
    ELSE SplitAcc(Tail(s), Append(cur, Head(s)), acc)

ClassList(el) ==
    IF hasAttribute(el, "class")
    THEN LET t == SplitAcc(getAttribute(el, "class"), <<>>, <<>>)
         IN {t[i] : i \in 1..Len(t)}
    ELSE {}

\* the characters of an attribute value as one string
RECURSIVE Flatten(_)
Flatten(v) == IF v = <<>> THEN "" ELSE Head(v) \o Flatten(Tail(v))

\* the selectors the code uses: tag, .class, #id, [name="value"], tag[name="value"]
TagSel(t) == [kind |-> "tag", tag |-> t, name |-> "", value |-> <<>>]
ClassSel(c) == [kind |-> "class", tag |-> "*", name |-> "class", value |-> <<c>>]
IdSel(i) == [kind |-> "id", tag |-> "*", name |-> "id", value |-> <<i>>]
AttrSel(t, n, v) == [kind |-> "attr", tag |-> t, name |-> n, value |-> <<v>>]

\* Element.matches for one selector
Matches(el, sel) ==
    CASE sel.kind = "tag" -> el.tag = sel.tag
      [] sel.kind = "class" -> sel.value \in ClassList(el)
      [] sel.kind = "id" -> hasAttribute(el, "id") /\ getAttribute(el, "id") = sel.value
      [] OTHER -> /\ sel.tag \in {"*", el.tag}
                  /\ hasAttribute(el, sel.name)
                  /\ getAttribute(el, sel.name) = sel.value

\* querySelectorAll(sels) below a child list: the elements matching one of
\* the selectors, in document order
querySelectorAll(kids, sels) ==
    SelectSeq(Descendants(kids),
              LAMBDA n : IsElement(n) /\ \E sel \in sels : Matches(n, sel))

\* querySelectorAll(sel).forEach(el => el.remove()), on a child list
RECURSIVE RemoveMatching(_, _)
RemoveMatching(kids, sel) ==
    IF kids = <<>> THEN <<>>
    ELSE LET n == Head(kids)
             rest == RemoveMatching(Tail(kids), sel)
         IN IF ~IsElement(n) THEN <<n>> \o rest
            ELSE IF Matches(n, sel) THEN rest
            ELSE <<[n EXCEPT !.kids = RemoveMatching(@, sel)]>> \o rest

\* the data of the text nodes below a child list, in document order
TextNodes(kids) ==
    LET d == SelectSeq(Descendants(kids), LAMBDA n : n.type = "text")
    IN [i \in 1..Len(d) |-> d[i].data]

\* textContent.trim(): a text node of the model is white space only or has
\* none at its ends, so trimming drops the blank text nodes at both ends
RECURSIVE TrimBlankLeft(_)
TrimBlankLeft(segs) ==
    IF segs # <<>> /\ IsBlank(Head(segs)) THEN TrimBlankLeft(Tail(segs)) ELSE segs

RECURSIVE TrimBlankRight(_)
TrimBlankRight(segs) ==
    IF segs # <<>> /\ IsBlank(segs[Len(segs)])
    THEN TrimBlankRight(SubSeq(segs, 1, Len(segs) - 1)) ELSE segs

TrimmedText(kids) == Flatten(TrimBlankRight(TrimBlankLeft(TextNodes(kids))))

-----------------------------------------------------------------------------
(* lib/readability: the content locator *)

NoResult == [ok |-> FALSE]

noiseSelectors ==
    <<TagSel("script"), TagSel("style"), TagSel("noscript"), TagSel("iframe"),
      TagSel("nav"), TagSel("footer"), TagSel("header"), TagSel("aside"),
      AttrSel("*", "role", "banner"), AttrSel("*", "role", "navigation"),
      AttrSel("*", "role", "complementary"), ClassSel("sidebar"), ClassSel("nav"),
      ClassSel("footer"), ClassSel("header"), ClassSel("ad"),
      ClassSel("advertisement"), ClassSel("social-share"), ClassSel("comments"),
      IdSel("comments"), ClassSel("related-posts")>>

\* lines 33-35: noiseSelectors.forEach(sel => ...remove()) from selector i on
RECURSIVE RemoveNoise(_, _)
RemoveNoise(kids, i) ==
    IF i > Len(noiseSelectors) THEN kids
    ELSE RemoveNoise(RemoveMatching(kids, noiseSelectors[i]), i + 1)

\* a title chain that reads <title> before <h1>
extractTitleDocFirst(doc) ==
    LET ogTitle == querySelectorAll(doc.kids, {AttrSel("meta", "property", "og:title")})
        h1 == querySelectorAll(doc.kids, {TagSel("h1")})
        title == querySelectorAll(doc.kids, {TagSel("title")})
        docTitle == IF title = <<>> THEN "" ELSE TrimmedText(title[1].kids)
    IN IF ogTitle # <<>>
       THEN (IF hasAttribute(ogTitle[1], "content")
             THEN Flatten(getAttribute(ogTitle[1], "content")) ELSE "")
       ELSE IF docTitle # "" THEN docTitle
       ELSE IF h1 # <<>> /\ textContent(h1[1].kids) # ""
       THEN TrimmedText(h1[1].kids)
       ELSE "Untitled"

\* lines 56-67
extractTitle(doc) ==
    LET ogTitle == querySelectorAll(doc.kids, {AttrSel("meta", "property", "og:title")})
        h1 == querySelectorAll(doc.kids, {TagSel("h1")})
        title == querySelectorAll(doc.kids, {TagSel("title")})
        docTitle == IF title = <<>> THEN "" ELSE TrimmedText(title[1].kids)
    IN IF ogTitle # <<>>
       THEN (IF hasAttribute(ogTitle[1], "content")
             THEN Flatten(getAttribute(ogTitle[1], "content")) ELSE "")
       ELSE IF h1 # <<>> /\ textContent(h1[1].kids) # ""
       THEN TrimmedText(h1[1].kids)
       ELSE IF docTitle # "" THEN docTitle ELSE "Untitled"

bylineSelectors ==
    <<AttrSel("*", "rel", "author"), ClassSel("author"), ClassSel("byline"),
      ClassSel("post-author"), AttrSel("meta", "name", "author")>>

\* lines 69-82, from selector i on; <<>> is null
RECURSIVE extractByline(_, _)
extractByline(doc, i) ==
    IF i > Len(bylineSelectors) THEN <<>>
    ELSE LET els == querySelectorAll(doc.kids, {bylineSelectors[i]})
             attr == IF els # <<>> /\ hasAttribute(els[1], "content")
                     THEN getAttribute(els[1], "content") ELSE <<>>
             content == IF els = <<>> THEN ""
                        ELSE IF attr # <<>> THEN Flatten(Trim(attr))
                        ELSE TrimmedText(els[1].kids)
         IN IF content # "" THEN <<content>> ELSE extractByline(doc, i + 1)

\* the elements below a child list with their depth (the number of elements
\* on the parentElement chain, the element itself included), document order
RECURSIVE WithDepth(_, _)
WithDepth(kids, depth) ==
    IF kids = <<>> THEN <<>>
    ELSE LET n == Head(kids)
         IN (IF IsElement(n)
             THEN <<[el |-> n, depth |-> depth]>> \o WithDepth(n.kids, depth + 1)
             ELSE <<>>)
            \o WithDepth(Tail(kids), depth)

MinArticleLength == 200
MinParagraphLength == 40
DepthPenalty == 10

\* a tie-break that keeps the first <article> whatever its length
FirstArticle(articles, i, best) ==
    IF articles = <<>> THEN best
    ELSE [len |-> Len(textContent(articles[1].kids)), el |-> <<articles[1]>>]

\* lines 90-98: the longest of several <article>s, from index i on
RECURSIVE LongestArticle(_, _, _)
LongestArticle(articles, i, best) ==
    IF i > Len(articles) THEN best
    ELSE LET len == Len(textContent(articles[i].kids))
         IN IF len > best.len
            THEN LongestArticle(articles, i + 1, [len |-> len, el |-> <<articles[i]>>])
            ELSE LongestArticle(articles, i + 1, best)

\* lines 110-120: the score of a div/section
RECURSIVE SumParagraphs(_, _)
SumParagraphs(paragraphs, i) ==
    IF i > Len(paragraphs) THEN 0
    ELSE LET text == TrimmedText(paragraphs[i].kids)
         IN (IF Len(text) > MinParagraphLength THEN Len(text) ELSE 0)
                + SumParagraphs(paragraphs, i + 1)

Score(c) ==
    SumParagraphs(querySelectorAll(c.el.kids, {TagSel("p")}), 1) - c.depth * DepthPenalty

\* lines 109-123: the best candidate, from index i on
RECURSIVE BestCandidate(_, _, _)
BestCandidate(candidates, i, best) ==
    IF i > Len(candidates) THEN best
    ELSE IF Score(candidates[i]) > best.score
    THEN BestCandidate(candidates, i + 1,
                       [score |-> Score(candidates[i]), el |-> <<candidates[i].el>>])
    ELSE BestCandidate(candidates, i + 1, best)

\* a landmark strategy without the length floor
MainLandmarkNoFloor(doc) ==
    LET main == querySelectorAll(doc.kids, {TagSel("main"), AttrSel("*", "role", "main")})
    IN IF main # <<>> THEN <<main[1]>> ELSE <<>>

\* lines 100-102: the first <main> or [role="main"], if its text is long enough
MainLandmark(doc) ==
    LET main == querySelectorAll(doc.kids, {TagSel("main"), AttrSel("*", "role", "main")})
    IN IF main # <<>> /\ Len(textContent(main[1].kids)) > MinArticleLength
       THEN <<main[1]>> ELSE <<>>

\* lines 104-125: the div/section elements with their depth, document order
Candidates(doc) ==
    SelectSeq(WithDepth(doc.kids, 1), LAMBDA c : c.el.tag \in {"div", "section"})

\* a locator that puts a lone <article> through the length floor as well
findArticleContentNoLoneArticle(doc) ==
    LET articles == querySelectorAll(doc.kids, {TagSel("article")})
        longest == LongestArticle(articles, 1, [len |-> 0, el |-> <<>>])
    IN IF longest.el # <<>> /\ longest.len > MinArticleLength
       THEN longest.el
       ELSE IF MainLandmark(doc) # <<>> THEN MainLandmark(doc)
       ELSE BestCandidate(Candidates(doc), 1, [score |-> 0, el |-> <<>>]).el

\* lines 84-126; <<el>> is the element found, <<>> is null
findArticleContent(doc) ==
    LET articles == querySelectorAll(doc.kids, {TagSel("article")})
        longest == LongestArticle(articles, 1, [len |-> 0, el |-> <<>>])
    IN IF Len(articles) = 1 THEN <<articles[1]>>
       ELSE IF Len(articles) > 1 /\ longest.el # <<>> /\ longest.len > MinArticleLength
       THEN longest.el
       ELSE IF MainLandmark(doc) # <<>> THEN MainLandmark(doc)
       ELSE BestCandidate(Candidates(doc), 1, [score |-> 0, el |-> <<>>]).el

\* a parseReadability whose exceptions reach the caller
Rethrown(outcome) == outcome

\* lines 22 and 51-53: try { ... } catch { return null }; an outcome with the
\* field threw is an exception raised inside the try block
CatchAll(outcome) == IF "threw" \in DOMAIN outcome THEN NoResult ELSE outcome

\* The documents of the page are held by reference: a store maps a handle
\* to the document it names. doc.cloneNode(true) fills the handle "clone".
cloneNode(store, h) == [store EXCEPT !["clone"] = store[h]]

\* a locator that works on the caller's document (const clone = doc)
AliasedHandle(h) == h

\* line 23: the handle of the document lines 33-49 work on
WorkingHandle(h) == "clone"

\* lines 21-54: parseReadability(doc), doc being the document store[h] names.
\* Gives the store afterwards, the result, and the text nodes result.textContent
\* is made of. The excerpt (a slice of textContent) is left out: no caller
\* reads it.
parseReadability(store, h) ==
    LET w == WorkingHandle(h)
        cloned == cloneNode(store, h)
        after == [cloned EXCEPT ![w].kids = RemoveNoise(@, 1)]
        article == findArticleContent(after[w])
    IN [store |-> after,
        segments |-> IF article = <<>> THEN <<>>
                     ELSE TrimBlankRight(TrimBlankLeft(TextNodes(article[1].kids))),
        result |->
            IF article = <<>> THEN NoResult
            ELSE [ok |-> TRUE,
                  title |-> extractTitle(after[w]),
                  byline |-> extractByline(after[w], 1),
                  content |-> Serialize(article[1].kids),
                  textContent |-> TrimmedText(article[1].kids)]]

-----------------------------------------------------------------------------
(* modules/extractor *)

MinTextLength == 100

\* an extractor without the length check
TooShortNoCheck(result) == ~result.ok

\* line 29
TooShort(result) ==
    ~result.ok \/ result.textContent = "" \/ Len(result.textContent) < MinTextLength

\* a hash step with the multiplier 33: (hash << 5) + hash + ch
HashStep33(hash, ch) ==
    LET lo == hash.lo * 33 + ch
    IN [hi |-> (hash.hi * 33 + lo \div 65536) % 65536, lo |-> lo % 65536]

\* lines 17-18: hash = ((hash << 5) - hash) + ch; hash |= 0. A 32-bit integer
\* is kept as its two 16-bit halves, two's complement.
HashStep(hash, ch) ==
    LET shLo == (hash.lo * 32) % 65536
        shHi == (hash.hi * 32 + (hash.lo * 32) \div 65536) % 65536
        subLo == (shLo - hash.lo) % 65536
        borrow == IF shLo < hash.lo THEN 1 ELSE 0
        subHi == (shHi - hash.hi - borrow) % 65536
        addLo == subLo + ch
    IN [hi |-> (subHi + addLo \div 65536) % 65536, lo |-> addLo % 65536]

\* the digits of Number.prototype.toString(36)
Base36 ==
    <<"0", "1", "2", "3", "4", "5", "6", "7", "8", "9", "a", "b", "c", "d", "e",
      "f", "g", "h", "i", "j", "k", "l", "m", "n", "o", "p", "q", "r", "s", "t",
      "u", "v", "w", "x", "y", "z">>

\* lines 13-21: articleIdFromUrl, url being the sequence of its code units;
\* the id is a sequence of characters
articleIdFromUrl(url) ==
    LET RECURSIVE Loop(_, _)
        Loop(i, hash) ==
            IF i > Len(url) THEN hash ELSE Loop(i + 1, HashStep(hash, url[i]))
        hash == Loop(1, [hi |-> 0, lo |-> 0])
        abs == IF hash.hi < 32768 THEN hash
               ELSE [hi |-> 65535 - hash.hi + (IF hash.lo = 0 THEN 1 ELSE 0),
                     lo |-> (65536 - hash.lo) % 65536]
        RECURSIVE ToString36(_)
        ToString36(n) ==
            LET t == (n.hi % 36) * 65536 + n.lo
            IN IF n.hi = 0 /\ n.lo < 36 THEN <<Base36[n.lo + 1]>>
               ELSE ToString36([hi |-> n.hi \div 36, lo |-> t \div 36])
                        \o <<Base36[(t % 36) + 1]>>
    IN <<"a", "r", "t", "_">> \o ToString36(abs)

\* lines 27-43: extractArticle, given parseReadability's result. The
\* extractedAt field (Date.now()) is not modelled here.
extractArticle(url, result) ==
    IF TooShort(result) THEN NoResult
    ELSE [ok |-> TRUE,
          id |-> articleIdFromUrl(url),
          url |-> url,
          title |-> result.title,
          byline |-> result.byline,
          contentHtml |-> sanitizeHtml(result.content),
          text |-> result.textContent]

-----------------------------------------------------------------------------
(* The pages extractArticle runs on *)

\* texts of 40, 41, 99, 100 and 201 characters
T40 == "Readers with dyslexia benefit from clear"
T41 == "Readers with dyslexia benefit from clear."
T99 == "Readers with dyslexia benefit from clear text. Readers with dyslexia benefit from clear text. Reade"
T100 == "Readers with dyslexia benefit from clear text. Readers with dyslexia benefit from clear text. Reader"
T201 == "Readers with dyslexia benefit from clear text. Readers with dyslexia benefit from clear text. Readers with dyslexia benefit from clear text. Readers with dyslexia benefit from clear text. Readers with."

El(t, kids) == Element(t, <<>>, kids)
ElClass(t, c, kids) == Element(t, <<Attr("class", <<c>>)>>, kids)
ElId(t, i, kids) == Element(t, <<Attr("id", <<i>>)>>, kids)
P(s) == El("p", <<Text(s)>>)
Link(s) == Element("a", <<Attr("href", <<"#">>)>>, <<Text(s)>>)
Nl == Text("\n ")

\* "http://localhost/", the location of the test documents, as the code
\* units charCodeAt gives
LocalhostUrl ==
    <<104, 116, 116, 112, 58, 47, 47, 108, 111, 99, 97, 108, 104, 111, 115, 116, 47>>

\* code units of a page URL: "/", "a" and the largest one
CodeUnits == {47, 97, 65535}

Page(url, head, body) ==
    [url |-> url, kids |-> <<El("html", <<El("head", head), El("body", body)>>)>>]

NoPage == [url |-> <<>>, kids |-> <<>>]

\* the documents of tests/extractor.test.ts (the long paragraphs of the
\* last one are shortened)
BasicPage ==
    Page(LocalhostUrl, <<El("title", <<Text("Test Article")>>)>>,
         <<El("article", <<Nl, El("h1", <<Text("Test Article Title")>>), Nl,
                           P("This is the main content of the article."), Nl>>)>>)

AdsPage ==
    Page(LocalhostUrl, <<>>,
         <<El("article",
              <<Nl, El("h1", <<Text("Article with Ads")>>), Nl,
                P("Main content paragraph 1."), Nl,
                ElClass("div", "ad-container", <<Text("Buy this product!")>>), Nl,
                ElId("div", "google-ads", <<Text("Ad content")>>), Nl,
                P("Main content paragraph 2."), Nl,
                ElClass("div", "advertisement", <<Text("Another ad")>>), Nl>>)>>)

AlsoReadPage ==
    Page(LocalhostUrl, <<>>,
         <<El("article",
              <<Nl, El("h1", <<Text("Article with Related Links")>>), Nl,
                P("Main content."), Nl,
                ElClass("div", "related-articles",
                   <<Nl, El("h3", <<Text("Also read:")>>), Nl,
                     El("ul", <<Nl, El("li", <<Link("Related Article 1")>>), Nl,
                                El("li", <<Link("Related Article 2")>>), Nl>>), Nl>>), Nl,
                P("More main content."), Nl>>)>>)

NewsletterPage ==
    Page(LocalhostUrl, <<>>,
         <<El("article",
              <<Nl, El("h1", <<Text("Article with Newsletter")>>), Nl,
                P("Main content."), Nl,
                ElClass("div", "newsletter-signup",
                   <<Nl, El("h3", <<Text("Sign up for our newsletters")>>), Nl,
                     P("Get the best stories in your inbox."), Nl,
                     Element("input", <<Attr("type", <<"email">>)>>, <<>>), Nl>>), Nl>>)>>)

ImageLink(src, s) ==
    ElClass("div", "image-link",
            <<Nl, Element("img", <<Attr("src", <<src>>)>>, <<>>), Nl, Link(s), Nl>>)

CorruptionPage ==
    Page(LocalhostUrl, <<>>,
         <<El("article",
              <<Nl, El("h1", <<Text("Corruption report")>>), Nl,
                P("Singapore's performance was underpinned by robust legislations."), Nl,
                P("The bureau also pointed to Singapore's top ranking."), Nl,
                P("The country also placed second globally out of 143 countries."), Nl,
                P("Also read:"), Nl,
                ImageLink("foo.jpg", "Inside the CPIB: Meet the officers tackling corruption in Singapore"), Nl,
                ImageLink("bar.jpg", "Singapore climbs 2 places to be ranked 3rd least corrupt country"), Nl,
                P("Source: CNA/co(zl)"), Nl,
                El("h3", <<Text("Sign up for our newsletters")>>), Nl,
                P("Get our pick of top stories and thought-provoking articles in your inbox"), Nl>>)>>)

TestPages == {BasicPage, AdsPage, AlsoReadPage, NewsletterPage, CorruptionPage}

\* the blocks generated pages are made of
UnsafeLink ==
    Element("a", <<Attr("href", JsUpper), Attr("onclick", Handler)>>, <<Text(T41)>>)

Blocks ==
    {El("article", <<P(T100)>>),
     El("article", <<P(T99), Nl>>),
     El("article", <<El("foo", <<UnsafeLink, El("bar", <<>>)>>), P(T100)>>),
     El("article", <<El("script", <<Text("x")>>), Comment("c"), P(T201)>>),
     El("nav", <<Link(T41)>>),
     El("div", <<P(T41), P(T99)>>),
     El("div", <<P(T40), P(T40), P(T40)>>),
     ElClass("div", "advertisement", <<P(T201)>>),
     El("main", <<P(T201), El("script", <<Text("x")>>)>>),
     El("section", <<El("div", <<P(T100), Element("img", <<Attr("src", JsLower)>>, <<>>)>>)>>)}

RECURSIVE BlockLists(_)
BlockLists(n) ==
    IF n = 0 THEN {<<>>}
    ELSE {<<>>} \cup {<<b>> \o l : b \in Blocks, l \in BlockLists(n - 1)}

Heads ==
    {<<>>,
     <<El("title", <<Text("Foo")>>)>>,
     <<Element("meta", <<Attr("property", <<"og:title">>), Attr("content", <<"Og", " ", "Title">>)>>, <<>>),
       Element("meta", <<Attr("name", <<"author">>), Attr("content", <<"Ann">>)>>, <<>>)>>}

GeneratedPages ==
    {Page(LocalhostUrl \o <<97>>, h, b) : h \in Heads, b \in BlockLists(MaxBlocks)}

Pages == TestPages \cup GeneratedPages

-----------------------------------------------------------------------------
(* The pages the locator's strategies are told apart on *)

\* texts of 50, 200 and 500 characters
T50 == "Readers with dyslexia benefit from clear text. Rea"
T200 == T100 \o T100
T500 == T200 \o T200 \o T100

RoleMain(t, kids) == Element(t, <<Attr("role", <<"main">>)>>, kids)

LocBlocks ==
    {El("article", <<P(T50)>>),
     El("article", <<P(T200)>>),
     El("article", <<P(T201)>>),
     El("article", <<P(T500)>>),
     El("main", <<P(T100)>>),
     El("main", <<P(T201)>>),
     RoleMain("div", <<P(T100)>>),
     El("div", <<P(T41), P(T99)>>),
     El("section", <<El("div", <<P(T100)>>)>>),
     El("div", <<P(T40)>>)}

RECURSIVE LocBlockLists(_)
LocBlockLists(n) ==
    IF n = 0 THEN {<<>>}
    ELSE {<<>>} \cup {<<b>> \o l : b \in LocBlocks, l \in LocBlockLists(n - 1)}

\* several short <article>s beside a landmark or a container
FallThroughPages ==
    {Page(LocalhostUrl \o <<98>>, <<>>, <<El("article", <<P(T50)>>), El("article", <<P(T200)>>), b>>) :
        b \in {El("main", <<P(T201)>>), El("main", <<P(T100)>>),
                El("div", <<P(T41), P(T99)>>), RoleMain("article", <<P(T100)>>)}}

OgTitle(content) ==
    Element("meta", <<Attr("property", <<"og:title">>), Attr("content", content)>>, <<>>)

TitleHeads ==
    {<<>>,
     <<El("title", <<Text("Foo")>>)>>,
     <<OgTitle(<<"Og", " ", "Title">>)>>,
     <<OgTitle(<<"Og", " ", "Title">>), El("title", <<Text("Foo")>>)>>,
     <<Element("meta", <<Attr("property", <<"og:title">>)>>, <<>>), El("title", <<Text("Foo")>>)>>,
     <<El("title", <<>>)>>}

TitleBodies ==
    {<<El("article", <<P(T100)>>)>>,
     <<El("article", <<El("h1", <<Text("Head Line")>>), P(T100)>>)>>,
     <<El("article", <<El("h1", <<Nl, Text("Head Line"), Nl>>), El("h1", <<Text("Second")>>), P(T100)>>)>>,
     <<El("article", <<El("h1", <<>>), El("h1", <<Text("Second")>>), P(T100)>>)>>,
     <<El("article", <<El("h1", <<Text(" ")>>), P(T100)>>)>>,
     <<El("header", <<El("h1", <<Text("Site Name")>>)>>), El("article", <<P(T100)>>)>>}

LocPages ==
    {Page(LocalhostUrl \o <<98>>, <<>>, b) : b \in LocBlockLists(MaxLocBlocks)}
        \cup FallThroughPages
        \cup {Page(LocalhostUrl \o <<99>>, h, b) : h \in TitleHeads, b \in TitleBodies}
        \cup {BasicPage}

------------------------------------------------------------------------------
(* The service worker and the content script before anything is asked *)

NoJob == [pc |-> "off"]

\* unnamed/part_000 lines 44-50, 78-82 and 94-98: no key, no glossary and no
\* simplified chunk stored
EmptyStore ==
    [apiKey |-> "", glossary |-> <<>>, simplified |-> <<>>, articles |-> <<>>,
     plans |-> <<>>, readerSettings |-> <<>>]

NoTab == [pc |-> "off"]

NoReader == [pc |-> "off"]

NoTts == [pc |-> "off"]

\* unnamed/part_003 line 19: the article cache is a new Map
UiIdle ==
    /\ articleCache = <<>>
    /\ reader = NoReader
    /\ tts = NoTts

BgIdle ==
    /\ job = NoJob
    /\ net = <<>>
    /\ storage = EmptyStore
    /\ ops = <<>>
    /\ replies = <<>>
    /\ tab = NoTab

-----------------------------------------------------------------------------
(* sanitizeHtml as a process: parse, clean, serialise *)

SanInit ==
    /\ sanIn \in {Serialize(f) : f \in Fragments}
    /\ sanBody = <<>>
    /\ sanPc = "call"
    /\ sanRet = <<>>
    /\ sanLog = <<>>
    /\ docs = [h \in {"live", "clone"} |-> NoPage]
    /\ page0 = NoPage
    /\ extPc = "off"
    /\ rdResult = NoResult
    /\ rdSegments = <<>>
    /\ extRet = NoResult
    /\ policy = AllowlistPolicy
    /\ UiIdle
    /\ cmp = NoPair
    /\ BgIdle

\* line 27-28
SanParse ==
    /\ sanPc = "call"
    /\ sanBody' = ParseBody(sanIn)
    /\ sanPc' = "parsed"
    /\ UNCHANGED <<sanIn, sanRet, sanLog>>
    /\ UNCHANGED extVars
    /\ UNCHANGED <<policy, cmp, bgVars, uiVars>>

\* line 29
SanClean ==
    /\ sanPc = "parsed"
    /\ sanBody' = cleanNode(sanBody)
    /\ sanPc' = "cleaned"
    /\ sanLog' = Append(sanLog, [arg |-> sanIn, parsed |-> sanBody, ret |-> <<>>])
    /\ UNCHANGED <<sanIn, sanRet>>
    /\ UNCHANGED extVars
    /\ UNCHANGED <<policy, cmp, bgVars, uiVars>>

\* line 30
SanReturn ==
    /\ sanPc = "cleaned"
    /\ sanRet' = Serialize(sanBody)
    /\ sanPc' = "returned"
    /\ sanLog' = [sanLog EXCEPT ![Len(sanLog)].ret = Serialize(sanBody)]
    /\ UNCHANGED <<sanIn, sanBody>>
    /\ UNCHANGED extVars
    /\ UNCHANGED <<policy, cmp, bgVars, uiVars>>

\* the caller passes the result to sanitizeHtml again
SanAgain ==
    /\ sanPc = "returned"
    /\ Len(sanLog) < MaxCalls
    /\ sanIn' = sanRet
    /\ sanBody' = <<>>
    /\ sanPc' = "call"
    /\ UNCHANGED <<sanRet, sanLog>>
    /\ UNCHANGED extVars
    /\ UNCHANGED <<policy, cmp, bgVars, uiVars>>

SanNext == SanParse \/ SanClean \/ SanReturn \/ SanAgain

SanSpec == SanInit /\ [][SanNext]_vars

-----------------------------------------------------------------------------
(* extractArticle(document) as a process *)

ExtInit ==
    /\ page0 \in Pages
    /\ docs = [h \in {"live", "clone"} |-> IF h = "live" THEN page0 ELSE NoPage]
    /\ extPc = "start"
    /\ rdResult = NoResult
    /\ rdSegments = <<>>
    /\ extRet = NoResult
    /\ policy = AllowlistPolicy
    /\ UiIdle
    /\ cmp = NoPair
    /\ BgIdle
    /\ sanIn = <<>>
    /\ sanBody = <<>>
    /\ sanPc = "off"
    /\ sanRet = <<>>
    /\ sanLog = <<>>

\* extractor line 28
ExtParse ==
    /\ extPc = "start"
    /\ LET r == parseReadability(docs, "live") IN
         /\ docs' = r.store
         /\ rdResult' = r.result
         /\ rdSegments' = r.segments
    /\ extPc' = "parsed"
    /\ UNCHANGED <<page0, extRet>>
    /\ UNCHANGED sanVars
    /\ UNCHANGED <<policy, cmp, bgVars, uiVars>>

\* extractor lines 29-42
ExtReturn ==
    /\ extPc \in {"parsed", "caught"}
    /\ extRet' = extractArticle(docs["live"].url, rdResult)
    /\ extPc' = "done"
    /\ UNCHANGED <<docs, page0, rdResult, rdSegments>>
    /\ UNCHANGED sanVars
    /\ UNCHANGED <<policy, cmp, bgVars, uiVars>>

ExtNext == ExtParse \/ ExtReturn

ExtSpec == ExtInit /\ [][ExtNext]_vars

\* the same process on the pages that tell the locator's strategies apart
LocInit ==
    /\ page0 \in LocPages
    /\ docs = [h \in {"live", "clone"} |-> IF h = "live" THEN page0 ELSE NoPage]
    /\ extPc = "start"
    /\ rdResult = NoResult
    /\ rdSegments = <<>>
    /\ extRet = NoResult
    /\ policy = AllowlistPolicy
    /\ UiIdle
    /\ cmp = NoPair
    /\ BgIdle
    /\ sanIn = <<>>
    /\ sanBody = <<>>
    /\ sanPc = "off"
    /\ sanRet = <<>>
    /\ sanLog = <<>>

LocSpec == LocInit /\ [][ExtNext]_vars

\* lines 22-53 when a step of the try block raises: at cloneNode, or in a
\* heuristic after the noise is out of the clone
ExtParseFault ==
    /\ extPc = "start"
    /\ \E late \in BOOLEAN :
          docs' = IF late THEN parseReadability(docs, "live").store ELSE docs
    /\ rdResult' = CatchAll([ok |-> FALSE, threw |-> TRUE])
    /\ rdSegments' = <<>>
    /\ extPc' = "caught"
    /\ UNCHANGED <<page0, extRet>>
    /\ UNCHANGED sanVars
    /\ UNCHANGED <<policy, cmp, bgVars, uiVars>>

\* the same process on pages at many locations
IdInit ==
    /\ page0 \in {Page(u, <<>>, <<El("article", <<P(t)>>)>>) :
                     u \in UNION {[1..n -> CodeUnits] : n \in 0..MaxUrlLen},
                     t \in {T100, T201}}
    /\ docs = [h \in {"live", "clone"} |-> IF h = "live" THEN page0 ELSE NoPage]
    /\ extPc = "start"
    /\ rdResult = NoResult
    /\ rdSegments = <<>>
    /\ extRet = NoResult
    /\ policy = AllowlistPolicy
    /\ UiIdle
    /\ cmp = NoPair
    /\ BgIdle
    /\ sanIn = <<>>
    /\ sanBody = <<>>
    /\ sanPc = "off"
    /\ sanRet = <<>>
    /\ sanLog = <<>>

IdSpec == IdInit /\ [][ExtNext]_vars

FaultSpec == LocInit /\ [][ExtNext \/ ExtParseFault]_vars

-----------------------------------------------------------------------------
(* The two variants of lib/sanitize on one element with one attribute *)

CmpInit ==
    /\ cmp \in {[tag |-> t, attr |-> a, lite |-> NoVerdict, lib |-> NoVerdict] :
                   t \in TagUniverse, a \in AttrUniverse}
    /\ policy = AllowlistPolicy
    /\ UiIdle
    /\ sanIn = <<>>
    /\ sanBody = <<>>
    /\ sanPc = "off"
    /\ sanRet = <<>>
    /\ sanLog = <<>>
    /\ docs = [h \in {"live", "clone"} |-> NoPage]
    /\ page0 = NoPage
    /\ extPc = "off"
    /\ rdResult = NoResult
    /\ rdSegments = <<>>
    /\ extRet = NoResult
    /\ BgIdle

\* part_004 lines 26-31
CmpLite ==
    /\ cmp.lite = NoVerdict
    /\ cmp' = [cmp EXCEPT !.lite = LiteVerdict(cmp.tag, cmp.attr)]
    /\ UNCHANGED <<policy, sanVars, extVars, bgVars, uiVars>>

\* part_004 lines 92-103
CmpPurify ==
    /\ cmp.lib = NoVerdict
    /\ cmp' = [cmp EXCEPT !.lib = PurifyVerdict(cmp.tag, cmp.attr)]
    /\ UNCHANGED <<policy, sanVars, extVars, bgVars, uiVars>>

CmpNext == CmpLite \/ CmpPurify

CmpSpec == CmpInit /\ [][CmpNext]_vars

------------------------------------------------------------------------------
(* modules/chunker (unnamed/part_001): texts, responses and the local plan *)

\* A string of article text is the sequence of its sentences, each
\* [w |-> its number of words, gap |-> the length of the white space before
\* it]: 1 for a space, 2 for the blank line between two paragraphs. A word
\* has four letters and a sentence starts with a capital and ends in a full
\* stop: a sentence of w words is 5w characters long.
Sentence(w, gap) == [w |-> w, gap |-> gap]

\* str.trim().length
RECURSIVE CharLength(_)
CharLength(str) ==
    IF str = <<>> THEN 0
    ELSE 5 * str[Len(str)].w + (IF Len(str) = 1 THEN 0 ELSE str[Len(str)].gap)
             + CharLength(SubSeq(str, 1, Len(str) - 1))

\* str.split(/\s+/).length: the empty string splits into one empty string
RECURSIVE WordCount(_)
WordCount(str) ==
    IF str = <<>> THEN 1
    ELSE str[1].w + (IF Len(str) = 1 THEN 0 ELSE WordCount(Tail(str)))

\* a + sep + b, sep being white space of the given length
Append2(a, gap, b) ==
    IF a = <<>> THEN b
    ELSE IF b = <<>> THEN a
    ELSE a \o <<[b[1] EXCEPT !.gap = gap]>> \o Tail(b)

\* strs.join(sep)
RECURSIVE Join(_, _)
Join(strs, gap) ==
    IF strs = <<>> THEN <<>>
    ELSE Append2(Join(SubSeq(strs, 1, Len(strs) - 1), gap), gap, strs[Len(strs)])

\* str.split(re).map(p => p.trim()), re matching the white space of the
\* given lengths
RECURSIVE Split(_, _)
Split(str, gaps) ==
    IF str = <<>> THEN <<>>
    ELSE LET rest == Split(Tail(str), gaps)
             first == [str[1] EXCEPT !.gap = 0]
         IN IF rest = <<>> \/ str[2].gap \in gaps THEN <<<<first>>>> \o rest
            ELSE <<<<first, str[2]>> \o Tail(rest[1])>> \o Tail(rest)

\* line 174
TARGET_WORDS == 120

\* line 175
MAX_WORDS == 200

\* line 76
MAX_CHARS == 5000

\* lines 265-298: splitParagraphs
splitParagraphs(text) ==
    LET double == SelectSeq(Split(text, {2}), LAMBDA p : CharLength(p) > 20)
        single == SelectSeq(Split(text, {2}), LAMBDA p : CharLength(p) > 30)
        sentences == SelectSeq(Split(text, {1, 2}), LAMBDA p : CharLength(p) > 40)
        grouped == [i \in 1..((Len(sentences) + 2) \div 3) |->
                      Join(SubSeq(sentences, 3 * i - 2,
                                  IF 3 * i < Len(sentences) THEN 3 * i
                                  ELSE Len(sentences)), 1)]
    IN IF Len(double) >= 3 THEN double
       ELSE IF Len(single) >= 3 THEN single
       ELSE IF Len(sentences) > 30
            THEN SelectSeq(grouped, LAMBDA p : CharLength(p) > 20)
       ELSE IF Len(sentences) >= 3 THEN sentences
       ELSE SelectSeq(<<text>>, LAMBDA p : CharLength(p) > 20)

\* lines 303-332: splitBySentences
splitBySentences(text, targetWords) ==
    LET sentences == Split(text, {1, 2})
        RECURSIVE Loop(_, _, _, _)
        Loop(i, chunks, current, currentWords) ==
            IF i > Len(sentences)
            THEN IF current # <<>>
                 THEN IF Len(chunks) > 0 /\ 3 * currentWords < targetWords
                      THEN [chunks EXCEPT ![Len(chunks)] = Append2(@, 1, current)]
                      ELSE Append(chunks, current)
                 ELSE chunks
            ELSE LET words == WordCount(sentences[i])
                     cur == Append2(current, 1, sentences[i])
                 IN IF currentWords + words >= targetWords
                    THEN Loop(i + 1, Append(chunks, cur), <<>>, 0)
                    ELSE Loop(i + 1, chunks, cur, currentWords + words)
    IN SelectSeq(Loop(1, <<>>, <<>>, 0), LAMBDA c : CharLength(c) > 20)

\* lines 334-350: batchParagraphs
batchParagraphs(paragraphs, maxChars) ==
    LET RECURSIVE Loop(_, _, _, _)
        Loop(i, batches, current, currentLen) ==
            IF i > Len(paragraphs)
            THEN IF Len(current) > 0 THEN Append(batches, current) ELSE batches
            ELSE LET p == paragraphs[i]
                 IN IF currentLen + CharLength(p) > maxChars /\ Len(current) > 0
                    THEN Loop(i + 1, Append(batches, current), <<p>>, CharLength(p))
                    ELSE Loop(i + 1, batches, Append(current, p),
                              currentLen + CharLength(p))
    IN Loop(1, <<>>, <<>>, 0)

\* the chunks of a plan, numbered in order: a chunk is [order, text], its id
\* and title being functions of order
Numbered(texts) == [i \in 1..Len(texts) |-> [order |-> i - 1, text |-> texts[i]]]

\* lines 173-254: localChunk; the plan is the sequence of its chunks
localChunk(paragraphs) ==
    LET RECURSIVE Loop(_, _, _, _)
        Loop(i, chunks, currentText, currentWords) ==
            IF i > Len(paragraphs)
            THEN IF currentText # <<>> THEN Append(chunks, currentText) ELSE chunks
            ELSE LET para == paragraphs[i]
                     words == WordCount(para)
                     text == Append2(currentText, 2, para)
                 IN IF words > MAX_WORDS
                    THEN Loop(i + 1,
                              (IF currentText # <<>> THEN Append(chunks, currentText)
                               ELSE chunks) \o splitBySentences(para, TARGET_WORDS),
                              <<>>, 0)
                    ELSE IF currentWords + words >= TARGET_WORDS
                    THEN Loop(i + 1, Append(chunks, text), <<>>, 0)
                    ELSE Loop(i + 1, chunks, text, currentWords + words)
        chunks == Loop(1, <<>>, <<>>, 0)
    IN IF Len(chunks) <= 1 /\ Len(paragraphs) > 0
       THEN Numbered(splitBySentences(Join(paragraphs, 2), TARGET_WORDS))
       ELSE Numbered(chunks)

------------------------------------------------------------------------------
(* llmClient and the three callers of callOpenRouter as processes *)

\* a condition under which the empty string counts as a key
TruthyAlways(s) == TRUE

\* unnamed/part_001 line 41, modules/readingRuler line 231: if (apiKey),
\* if (!req.apiKey); of the strings only the empty one is falsy
Truthy(s) == s # ""

\* modules/readingRuler lines 230-247: callOpenRouter up to its fetch; sent
\* is what goes out, the key being in the Authorization header
callOpenRouter(apiKey) ==
    IF ~Truthy(apiKey) THEN [threw |-> TRUE, sent |-> <<>>]
    ELSE [threw |-> FALSE,
          sent |-> <<[url |-> "https://openrouter.ai/api/v1/chat/completions",
                      key |-> apiKey]>>]

\* modules/readingRuler lines 233-259: how a request ends: fetch rejects, the
\* status is not ok or the content is no string (threw), or the content of
\* the first choice is returned
Outcomes(contents) ==
    {[threw |-> TRUE]} \cup {[threw |-> FALSE, content |-> c] : c \in contents}

\* the contents a model may answer the chunk prompt with: raw is the answer
\* when it holds no JSON object, chunks the data.chunks of the one it holds
ChunkItem(isString, words) == [isString |-> isString, text |-> <<Sentence(words, 0)>>]

ChunkContents ==
    {[json |-> FALSE, array |-> FALSE, chunks |-> <<>>],
     [json |-> TRUE, array |-> FALSE, chunks |-> <<>>],
     [json |-> TRUE, array |-> TRUE, chunks |-> <<>>],
     [json |-> TRUE, array |-> TRUE,
      chunks |-> <<ChunkItem(TRUE, 2), ChunkItem(FALSE, 100)>>],
     [json |-> TRUE, array |-> TRUE, chunks |-> <<ChunkItem(TRUE, 3)>>],
     [json |-> TRUE, array |-> TRUE,
      chunks |-> <<ChunkItem(TRUE, 100), ChunkItem(TRUE, 100), ChunkItem(TRUE, 100)>>]}

\* unnamed/part_001 lines 144-169: parseChunkResponse
parseChunkResponse(raw) ==
    IF raw.json /\ raw.array
    THEN SelectSeq(raw.chunks, LAMBDA c : c.isString /\ CharLength(c.text) > 10)
    ELSE <<>>

\* unnamed/part_002 lines 94-119: localSimplify; the texts hold no comma and
\* the bullets are left out
localSimplify(text) ==
    [simplifiedText |-> Join(Split(text, {1, 2}), 1), glossary |-> <<>>]

\* unnamed/part_002 lines 47-90: llmSimplify on the returned content
llmSimplify(text, raw) ==
    [simplifiedText |-> IF raw.json /\ raw.simplifiedText # <<>>
                        THEN raw.simplifiedText
                        ELSE IF raw.raw # <<>> THEN raw.raw ELSE text,
     glossary |-> IF raw.json THEN raw.glossary ELSE <<>>]

\* modules/explainer lines 72-78: localExplain; an explanation is the
\* selection it quotes and the words that follow
localExplain(text) ==
    [text |-> text,
     explanation |-> [quoted |-> text,
                      words |-> "To get a detailed explanation, add your OpenRouter API key in Settings."]]

\* modules/explainer lines 41-68: llmExplain on the returned content
llmExplain(text, raw) ==
    [text |-> text,
     explanation |-> [quoted |-> <<>>,
                      words |-> IF raw.json /\ raw.explanation # ""
                                THEN raw.explanation ELSE raw.raw]]

\* unnamed/part_001 lines 61-64, unnamed/part_002 line 42, modules/explainer
\* line 36: the local result is returned
LocalFallback(j) ==
    [j EXCEPT !.pc = "resolved",
              !.result = CASE j.fn = "generateReadingPlan" -> localChunk(j.paragraphs)
                           [] j.fn = "simplifyChunk" -> localSimplify(j.text)
                           [] j.fn = "explainText" -> localExplain(j.text)]

\* a catch block that lets the error out to the caller
Rethrow(j) == [j EXCEPT !.pc = "rejected", !.threw = TRUE]

\* unnamed/part_001 lines 53-59, unnamed/part_002 lines 36-40,
\* modules/explainer lines 30-34: the error is caught, and what follows the
\* try block runs
Catch(j) == LocalFallback([j EXCEPT !.threw = TRUE])

\* a retry after every first attempt
RetryAlways(parsed) == TRUE

\* unnamed/part_001 line 111
NeedsRetry(parsed) == Len(parsed) = 0

\* unnamed/part_001 line 47
TooFew(chunks, paragraphs) == Len(chunks) < 3 /\ Len(paragraphs) >= 3

\* unnamed/part_001 lines 136-141 and 46-51: the end of llmChunk and what
\* generateReadingPlan makes of its plan
PlanReturn(j) ==
    LET plan == IF Len(j.allChunks) = 0 THEN localChunk(j.paragraphs)
                ELSE j.allChunks
    IN [j EXCEPT !.pc = "resolved",
                 !.result = IF TooFew(plan, j.paragraphs)
                            THEN localChunk(j.paragraphs) ELSE plan]

\* unnamed/part_001 lines 84-109 and 113-124: the request of one attempt on
\* the batch j.bi; calls counts the requests batch by batch
Attempt(j, pc) ==
    LET r == callOpenRouter(j.apiKey)
    IN /\ job' = IF r.threw THEN Catch(j)
                 ELSE [j EXCEPT !.pc = pc,
                                !.calls = IF pc = "attempt1" THEN Append(@, 1)
                                          ELSE [@ EXCEPT ![Len(@)] = 2]]
       /\ net' = net \o r.sent

\* unnamed/part_001 lines 131-133 and the loop's next turn
NextBatch(j, parsed) ==
    LET pushed == [j EXCEPT !.allChunks =
                       @ \o [i \in 1..Len(parsed) |->
                               [order |-> Len(@) + i - 1, text |-> parsed[i].text]],
                            !.bi = @ + 1]
    IN IF pushed.bi <= Len(j.batches) THEN Attempt(pushed, "attempt1")
       ELSE job' = PlanReturn(pushed) /\ net' = net

\* unnamed/part_001 lines 31-94: generateReadingPlan up to its first await;
\* response is the content the last request has returned
GenerateReadingPlan ==
    /\ job.pc = "called"
    /\ job.fn = "generateReadingPlan"
    /\ LET paragraphs == splitParagraphs(job.text)
           j == [fn |-> job.fn, text |-> job.text, apiKey |-> job.apiKey,
                 pc |-> "running", threw |-> FALSE, result |-> <<>>,
                 paragraphs |-> paragraphs,
                 batches |-> batchParagraphs(paragraphs, MAX_CHARS),
                 bi |-> 1, response |-> <<>>, allChunks |-> <<>>,
                 calls |-> <<>>]
       IN IF ~Truthy(job.apiKey)
          THEN job' = LocalFallback(j) /\ net' = net
          ELSE IF j.batches = <<>> THEN job' = PlanReturn(j) /\ net' = net
          ELSE Attempt(j, "attempt1")
    /\ UNCHANGED <<storage, ops, replies, tab>>
    /\ UNCHANGED <<policy, cmp, sanVars, extVars, uiVars>>

\* unnamed/part_001 lines 94-133: the first attempt's request ends
ChunkResponse ==
    /\ job.pc = "attempt1"
    /\ \E o \in Outcomes(ChunkContents) :
          IF o.threw THEN job' = Catch(job) /\ net' = net
          ELSE LET parsed == parseChunkResponse(o.content)
                   j == [job EXCEPT !.response = <<o.content>>]
               IN IF NeedsRetry(parsed) THEN Attempt(j, "attempt2")
                  ELSE NextBatch(j, parsed)
    /\ UNCHANGED <<storage, ops, replies, tab>>
    /\ UNCHANGED <<policy, cmp, sanVars, extVars, uiVars>>

\* unnamed/part_001 lines 113-133: the retry's request ends
ChunkRetryResponse ==
    /\ job.pc = "attempt2"
    /\ \E o \in Outcomes(ChunkContents) :
          IF o.threw THEN job' = Catch(job) /\ net' = net
          ELSE NextBatch([job EXCEPT !.response = <<o.content>>],
                         parseChunkResponse(o.content))
    /\ UNCHANGED <<storage, ops, replies, tab>>
    /\ UNCHANGED <<policy, cmp, sanVars, extVars, uiVars>>

\* the contents a model may answer the simplify prompt with
SimplifyContents ==
    {[json |-> FALSE, raw |-> <<Sentence(9, 0)>>, simplifiedText |-> <<>>,
      glossary |-> <<>>],
     [json |-> TRUE, raw |-> <<Sentence(9, 0)>>, simplifiedText |-> <<>>,
      glossary |-> <<>>],
     [json |-> TRUE, raw |-> <<Sentence(9, 0)>>,
      simplifiedText |-> <<Sentence(7, 0)>>, glossary |-> <<>>]}

\* the contents a model may answer the explain prompt with
ExplainContents ==
    {[json |-> FALSE, raw |-> "It means everywhere.", explanation |-> ""],
     [json |-> TRUE, raw |-> "{}", explanation |-> ""],
     [json |-> TRUE, raw |-> "{\"explanation\":\"Found everywhere.\"}",
      explanation |-> "Found everywhere."]}

\* unnamed/part_002 lines 27-55, modules/explainer lines 22-50: simplifyChunk
\* and explainText up to their await
SimplifyOrExplain ==
    /\ job.pc = "called"
    /\ job.fn \in {"simplifyChunk", "explainText"}
    /\ LET j == [fn |-> job.fn, text |-> job.text, apiKey |-> job.apiKey,
                 pc |-> "running", threw |-> FALSE, result |-> <<>>]
           r == callOpenRouter(j.apiKey)
       IN IF ~Truthy(job.apiKey)
          THEN job' = LocalFallback(j) /\ net' = net
          ELSE /\ job' = IF r.threw THEN Catch(j)
                         ELSE [j EXCEPT !.pc = "awaiting"]
               /\ net' = net \o r.sent
    /\ UNCHANGED <<storage, ops, replies, tab>>
    /\ UNCHANGED <<policy, cmp, sanVars, extVars, uiVars>>

\* unnamed/part_002 lines 57-63 and 36-42, modules/explainer lines 52-68 and
\* 30-36: the request ends
LlmResponse ==
    /\ job.pc = "awaiting"
    /\ \E o \in Outcomes(IF job.fn = "simplifyChunk" THEN SimplifyContents
                         ELSE ExplainContents) :
          job' = IF o.threw THEN Catch(job)
                 ELSE [job EXCEPT !.pc = "resolved",
                                  !.result = IF job.fn = "simplifyChunk"
                                             THEN llmSimplify(job.text, o.content)
                                             ELSE llmExplain(job.text, o.content)]
    /\ net' = net
    /\ UNCHANGED <<storage, ops, replies, tab>>
    /\ UNCHANGED <<policy, cmp, sanVars, extVars, uiVars>>

\* the longest article text, in paragraphs
MaxParagraphs == 3

\* the paragraphs of the articles: of 5 to 200 words in one sentence, of
\* three sentences beyond MAX_WORDS, and one of 3017 characters
Paragraphs ==
    {<<Sentence(5, 0)>>, <<Sentence(70, 0)>>, <<Sentence(119, 0)>>,
     <<Sentence(200, 0)>>,
     <<Sentence(70, 0), Sentence(70, 1), Sentence(70, 1)>>,
     <<Sentence(201, 0), Sentence(201, 1), Sentence(201, 1)>>}

Texts ==
    {Join(ps, 2) : ps \in UNION {[1..n -> Paragraphs] : n \in 0..MaxParagraphs}}

\* the selections to explain: one word, two words
Selections == {<<Sentence(1, 0)>>, <<Sentence(2, 0)>>}

\* the stored key: none, or one
ApiKeys == {"", "sk-or-v1"}

JobInit ==
    /\ job \in {[fn |-> "generateReadingPlan", text |-> t, apiKey |-> k,
                 pc |-> "called"] : t \in Texts, k \in ApiKeys}
            \cup {[fn |-> "simplifyChunk", text |-> t, apiKey |-> k,
                   pc |-> "called"] : t \in Paragraphs, k \in ApiKeys}
            \cup {[fn |-> "explainText", text |-> t, apiKey |-> k,
                   pc |-> "called"] : t \in Selections,
                                      k \in ApiKeys}
    /\ net = <<>>
    /\ storage = EmptyStore
    /\ ops = <<>>
    /\ replies = <<>>
    /\ tab = NoTab
    /\ policy = AllowlistPolicy
    /\ UiIdle
    /\ cmp = NoPair
    /\ sanIn = <<>>
    /\ sanBody = <<>>
    /\ sanPc = "off"
    /\ sanRet = <<>>
    /\ sanLog = <<>>
    /\ docs = [h \in {"live", "clone"} |-> NoPage]
    /\ page0 = NoPage
    /\ extPc = "off"
    /\ rdResult = NoResult
    /\ rdSegments = <<>>
    /\ extRet = NoResult

JobNext ==
    GenerateReadingPlan \/ ChunkResponse \/ ChunkRetryResponse
        \/ SimplifyOrExplain \/ LlmResponse

JobSpec == JobInit /\ [][JobNext]_vars

------------------------------------------------------------------------------
(* The background service worker (unnamed/part_003) and modules/storage *)

\* the most messages the service worker is sent
MaxOps == 3

\* a glossary entry; the term is a sequence of characters
Entry(term) == [term |-> term, definition |-> "a definition"]

\* the entries saved: two terms that differ in case only, and a third term
Entries ==
    {Entry(<<"A", "P", "I">>), Entry(<<"a", "p", "i">>), Entry(<<"c", "a", "t">>)}

\* an addGlossaryEntry that pushes whatever it is given
addGlossaryEntryUnchecked(entries, entry) == Append(entries, entry)

\* unnamed/part_000 lines 102-106: addGlossaryEntry on the entries that
\* getGlossary has returned
addGlossaryEntry(entries, entry) ==
    IF ~\E i \in 1..Len(entries) :
            ToLowerCase(entries[i].term) = ToLowerCase(entry.term)
    THEN Append(entries, entry)
    ELSE entries

\* unnamed/part_000 lines 25-40: the defaults, of which the theme and the
\* font size are kept
getDefaults == [theme |-> "cream", fontSize |-> 18]

\* unnamed/part_000 lines 15-18: { ...defaults, ...(readerSettings || {}) }
getSettings == storage.readerSettings @@ getDefaults

\* unnamed/part_000 lines 44-50: getApiConfig
getApiConfig == [apiKey |-> storage.apiKey, model |-> "openrouter/auto"]

\* a message as the handler holds it: key is message.settings.openRouterApiKey,
\* text message.chunkText, queue the entries still to be saved, snapshot the
\* entries getGlossary returned, result the SimplifiedChunk
Op(type, pc, key, queue) ==
    [type |-> type, pc |-> pc, key |-> key, text |-> <<Sentence(70, 0)>>,
     queue |-> queue, snapshot |-> <<>>, result |-> localSimplify(<<>>)]

\* the contents a model may answer the simplify prompt of the service
\* worker with: no JSON, or JSON with a glossary
GlossaryContents ==
    {[json |-> FALSE, raw |-> <<Sentence(9, 0)>>, simplifiedText |-> <<>>,
      glossary |-> <<>>],
     [json |-> TRUE, raw |-> <<Sentence(9, 0)>>,
      simplifiedText |-> <<Sentence(7, 0)>>,
      glossary |-> <<Entry(<<"A", "P", "I">>), Entry(<<"a", "p", "i">>)>>],
     [json |-> TRUE, raw |-> <<Sentence(9, 0)>>,
      simplifiedText |-> <<Sentence(7, 0)>>,
      glossary |-> <<Entry(<<"c", "a", "t">>)>>]}

\* modules/messaging lines 35-37: sendResponse; data is a record, an array
\* being its one field
Reply(type, ok, data) == Append(replies, [type |-> type, ok |-> ok, data |-> data])

NoData == [none |-> TRUE]

\* chrome.runtime.onMessage: a message of the popup or of the reader page
\* arrives; unnamed/part_003 line 170 and unnamed/part_000 line 101: the
\* handler of SAVE_GLOSSARY_ENTRY runs up to getGlossary
Receive ==
    /\ Len(ops) < MaxOps
    /\ \E op \in {Op("GET_SETTINGS", "start", "", <<>>),
                  Op("SAVE_SETTINGS", "start", "sk-or-v1", <<>>),
                  Op("SIMPLIFY_CHUNK", "start", "", <<>>),
                  Op("TEST_API", "start", "", <<>>)}
                 \cup {Op("SAVE_GLOSSARY_ENTRY", "read", "", <<e>>) : e \in Entries} :
          ops' = Append(ops, op)
    /\ UNCHANGED <<job, net, storage, replies, tab>>
    /\ UNCHANGED <<policy, cmp, sanVars, extVars, uiVars>>

\* unnamed/part_003 lines 84-88
GetSettingsHandler(i) ==
    /\ ops[i].type = "GET_SETTINGS"
    /\ ops[i].pc = "start"
    /\ replies' = Reply("GET_SETTINGS", TRUE, getSettings @@ getApiConfig)
    /\ ops' = [ops EXCEPT ![i].pc = "done"]
    /\ UNCHANGED <<job, net, storage, tab>>
    /\ UNCHANGED <<policy, cmp, sanVars, extVars, uiVars>>

\* unnamed/part_003 lines 90-103, the key being in message.settings
SaveSettingsHandler(i) ==
    /\ ops[i].type = "SAVE_SETTINGS"
    /\ ops[i].pc = "start"
    /\ storage' = [storage EXCEPT !.apiKey = ops[i].key]
    /\ replies' = Reply("SAVE_SETTINGS", TRUE, NoData)
    /\ ops' = [ops EXCEPT ![i].pc = "done"]
    /\ UNCHANGED <<job, net, tab>>
    /\ UNCHANGED <<policy, cmp, sanVars, extVars, uiVars>>

\* unnamed/part_003 lines 141-152: the result is cached and its glossary
\* entries are saved one after the other
Simplified(i, result) ==
    /\ storage' = [storage EXCEPT !.simplified = <<result>>]
    /\ IF Len(result.glossary) > 0
       THEN /\ ops' = [ops EXCEPT ![i].pc = "read", ![i].result = result,
                                  ![i].queue = result.glossary]
            /\ replies' = replies
       ELSE /\ ops' = [ops EXCEPT ![i].pc = "done", ![i].result = result]
            /\ replies' = Reply("SIMPLIFY_CHUNK", TRUE, result)

\* unnamed/part_003 lines 134-141 and unnamed/part_002 lines 27-55
SimplifyChunkHandler(i) ==
    /\ ops[i].type = "SIMPLIFY_CHUNK"
    /\ ops[i].pc = "start"
    /\ LET r == callOpenRouter(getApiConfig.apiKey)
       IN IF storage.simplified # <<>>
          THEN /\ replies' = Reply("SIMPLIFY_CHUNK", TRUE, storage.simplified[1])
               /\ ops' = [ops EXCEPT ![i].pc = "done"]
               /\ UNCHANGED <<net, storage>>
          ELSE IF ~Truthy(getApiConfig.apiKey) \/ r.threw
          THEN /\ Simplified(i, localSimplify(ops[i].text))
               /\ net' = net
          ELSE /\ ops' = [ops EXCEPT ![i].pc = "awaiting",
                                     ![i].key = getApiConfig.apiKey]
               /\ net' = net \o r.sent
               /\ UNCHANGED <<storage, replies>>
    /\ UNCHANGED <<job, tab>>
    /\ UNCHANGED <<policy, cmp, sanVars, extVars, uiVars>>

\* unnamed/part_002 lines 36-42 and 57-63: the request of llmSimplify ends
SimplifyChunkResponse(i) ==
    /\ ops[i].type = "SIMPLIFY_CHUNK"
    /\ ops[i].pc = "awaiting"
    /\ \E o \in Outcomes(GlossaryContents) :
          Simplified(i, IF o.threw THEN localSimplify(ops[i].text)
                        ELSE llmSimplify(ops[i].text, o.content))
    /\ UNCHANGED <<job, net, tab>>
    /\ UNCHANGED <<policy, cmp, sanVars, extVars, uiVars>>

\* unnamed/part_000 lines 94-98 and 101: getGlossary returns what is stored
GlossaryRead(i) ==
    /\ ops[i].pc = "read"
    /\ ops' = [ops EXCEPT ![i].pc = "write", ![i].snapshot = storage.glossary]
    /\ UNCHANGED <<job, net, storage, replies, tab>>
    /\ UNCHANGED <<policy, cmp, sanVars, extVars, uiVars>>

\* unnamed/part_000 lines 102-107, then unnamed/part_003 lines 146-151 or
\* 170-171: the entry is added and stored, and the next entry is taken up or
\* the response sent
GlossaryWrite(i) ==
    /\ ops[i].pc = "write"
    /\ LET entries == addGlossaryEntry(ops[i].snapshot, Head(ops[i].queue))
           last == Len(ops[i].queue) = 1
       IN /\ storage' = IF entries # ops[i].snapshot
                        THEN [storage EXCEPT !.glossary = entries] ELSE storage
          /\ ops' = [ops EXCEPT ![i].pc = IF last THEN "done" ELSE "read",
                                ![i].snapshot = entries,
                                ![i].queue = Tail(@)]
          /\ replies' = IF ~last THEN replies
                        ELSE IF ops[i].type = "SIMPLIFY_CHUNK"
                        THEN Reply("SIMPLIFY_CHUNK", TRUE, ops[i].result)
                        ELSE Reply("SAVE_GLOSSARY_ENTRY", TRUE, [entries |-> entries])
    /\ UNCHANGED <<job, net, tab>>
    /\ UNCHANGED <<policy, cmp, sanVars, extVars, uiVars>>

\* unnamed/part_003 lines 180-184 and modules/readingRuler lines 265-271
TestApiHandler(i) ==
    /\ ops[i].type = "TEST_API"
    /\ ops[i].pc = "start"
    /\ LET r == callOpenRouter(getApiConfig.apiKey)
       IN IF ~Truthy(getApiConfig.apiKey) \/ r.threw
          THEN /\ replies' = Reply("TEST_API", FALSE, NoData)
               /\ ops' = [ops EXCEPT ![i].pc = "done"]
               /\ net' = net
          ELSE /\ ops' = [ops EXCEPT ![i].pc = "awaiting",
                                     ![i].key = getApiConfig.apiKey]
               /\ net' = net \o r.sent
               /\ replies' = replies
    /\ UNCHANGED <<job, storage, tab>>
    /\ UNCHANGED <<policy, cmp, sanVars, extVars, uiVars>>

\* unnamed/part_003 lines 184-188 and modules/readingRuler line 272: the
\* content holds "ok" or not, or the request has thrown
TestApiResponse(i) ==
    /\ ops[i].type = "TEST_API"
    /\ ops[i].pc = "awaiting"
    /\ \E o \in Outcomes(BOOLEAN) :
          replies' = Reply("TEST_API", ~o.threw /\ o.content, NoData)
    /\ ops' = [ops EXCEPT ![i].pc = "done"]
    /\ UNCHANGED <<job, net, storage, tab>>
    /\ UNCHANGED <<policy, cmp, sanVars, extVars, uiVars>>

SwInit ==
    /\ storage = EmptyStore
    /\ ops = <<>>
    /\ replies = <<>>
    /\ net = <<>>
    /\ job = NoJob
    /\ tab = NoTab
    /\ policy = AllowlistPolicy
    /\ UiIdle
    /\ cmp = NoPair
    /\ sanIn = <<>>
    /\ sanBody = <<>>
    /\ sanPc = "off"
    /\ sanRet = <<>>
    /\ sanLog = <<>>
    /\ docs = [h \in {"live", "clone"} |-> NoPage]
    /\ page0 = NoPage
    /\ extPc = "off"
    /\ rdResult = NoResult
    /\ rdSegments = <<>>
    /\ extRet = NoResult

SwNext ==
    \/ Receive
    \/ \E i \in 1..Len(ops) :
          \/ GetSettingsHandler(i)
          \/ SaveSettingsHandler(i)
          \/ SimplifyChunkHandler(i)
          \/ SimplifyChunkResponse(i)
          \/ GlossaryRead(i)
          \/ GlossaryWrite(i)
          \/ TestApiHandler(i)
          \/ TestApiResponse(i)

SwSpec == SwInit /\ [][SwNext]_vars

------------------------------------------------------------------------------
(* The content script (content/index) in one page of a tab *)

\* the most injections of the content script into the page
MaxInjections == 3

\* a content script that registers its listener at every injection
RegistersAlways(loaded) == TRUE

\* content/index line 12: if (!window.__DRA_CONTENT_LOADED)
Registers(loaded) == ~loaded

\* content/index lines 17-31: the listener's response to EXTRACT_ARTICLE;
\* threw is an exception raised inside its try block
Respond(page, threw) ==
    LET r == parseReadability([h \in {"live", "clone"} |->
                                  IF h = "live" THEN page ELSE NoPage], "live")
        article == extractArticle(page.url, r.result)
    IN IF threw THEN [ok |-> FALSE, error |-> "Extraction error"]
       ELSE IF article # NoResult THEN [ok |-> TRUE, data |-> article]
       ELSE [ok |-> FALSE,
             error |-> "Could not extract article content from this page. Try a different page with a clear article."]

\* unnamed/part_003 lines 32-36 and content/index lines 12-16:
\* executeScript runs the content script in the page once more; pending
\* counts the handlers that have injected and not yet sent their message
Inject ==
    /\ tab.pc = "on"
    /\ tab.injections < MaxInjections
    /\ tab' = [tab EXCEPT !.injections = @ + 1,
                          !.pending = @ + 1,
                          !.loaded = IF Registers(tab.loaded) THEN TRUE ELSE @,
                          !.listeners = IF Registers(tab.loaded) THEN @ + 1 ELSE @]
    /\ UNCHANGED <<job, net, storage, ops, replies>>
    /\ UNCHANGED <<policy, cmp, sanVars, extVars, uiVars>>

\* unnamed/part_003 line 43 and content/index lines 15-33: the message of
\* chrome.tabs.sendMessage reaches the page and every registered listener
\* is run on it; answers holds the sendResponse calls, message by message
Deliver ==
    /\ tab.pc = "on"
    /\ tab.pending > 0
    /\ \E threw \in BOOLEAN :
          tab' = [tab EXCEPT !.pending = @ - 1,
                             !.answers = Append(@, [l \in 1..tab.listeners |->
                                                      Respond(tab.page, threw)])]
    /\ UNCHANGED <<job, net, storage, ops, replies>>
    /\ UNCHANGED <<policy, cmp, sanVars, extVars, uiVars>>

TabInit ==
    /\ tab \in {[pc |-> "on", page |-> p, loaded |-> FALSE, listeners |-> 0,
                 injections |-> 0, pending |-> 0, answers |-> <<>>] :
                   p \in TestPages \cup FallThroughPages}
    /\ job = NoJob
    /\ net = <<>>
    /\ storage = EmptyStore
    /\ ops = <<>>
    /\ replies = <<>>
    /\ policy = AllowlistPolicy
    /\ UiIdle
    /\ cmp = NoPair
    /\ sanIn = <<>>
    /\ sanBody = <<>>
    /\ sanPc = "off"
    /\ sanRet = <<>>
    /\ sanLog = <<>>
    /\ docs = [h \in {"live", "clone"} |-> NoPage]
    /\ page0 = NoPage
    /\ extPc = "off"
    /\ rdResult = NoResult
    /\ rdSegments = <<>>
    /\ extRet = NoResult

TabNext == Inject \/ Deliver

TabSpec == TabInit /\ [][TabNext]_vars

------------------------------------------------------------------------------
(* The service worker's article handlers: EXTRACT_ARTICLE, GET_ARTICLE, *)
(* CLEAR_CACHE (unnamed/part_003 lines 26-81 and 192-196)               *)

\* the id of the articles of the tab's page
PageId == articleIdFromUrl(LocalhostUrl)

\* a message of the article handlers as its handler holds it: sent counts
\* the chrome.tabs.sendMessage calls that failed (attempt, a variable of the
\* loop), article is the article read or extracted
ArticleOp(type) ==
    [type |-> type, pc |-> "start", sent |-> 0, article |-> NoResult]

\* the handler has returned and its locals are gone
Returned(type) == [ArticleOp(type) EXCEPT !.pc = "done"]

\* a loop that gives up after the first failed attempt
LastAttemptFirst(attempt) == attempt = 0

\* unnamed/part_003 line 46: if (attempt === 2)
LastAttempt(attempt) == attempt = 2

\* a lookup that does not fall back on persistent storage
getArticleCacheOnly(id) ==
    IF id \in DOMAIN articleCache THEN articleCache[id] ELSE NoResult

\* unnamed/part_003 lines 72-75 and part_000 lines 58-62: the article of the
\* cache, or else the stored one; NoResult stands for null
getArticle(id) ==
    IF id \in DOMAIN articleCache THEN articleCache[id]
    ELSE IF id \in DOMAIN storage.articles THEN storage.articles[id]
    ELSE NoResult

\* chrome.runtime.onMessage: EXTRACT_ARTICLE of the popup, GET_ARTICLE of a
\* reader page or CLEAR_CACHE of the popup arrives
ReceiveArticleMessage ==
    /\ Len(ops) < MaxOps
    /\ \E type \in {"EXTRACT_ARTICLE", "GET_ARTICLE", "CLEAR_CACHE"} :
          ops' = Append(ops, ArticleOp(type))
    /\ UNCHANGED <<job, net, storage, replies, tab>>
    /\ UNCHANGED <<policy, cmp, sanVars, extVars, uiVars>>

\* the document that is at the tab's URL when a message reaches it: too
\* short for an article, one of two articles, or one the listener fails on
TabPages == <<BasicPage, AdsPage, AlsoReadPage, AdsPage>>

\* content/index lines 17-31: what the content script answers on each, with
\* an exception on the last
Answers ==
    [k \in 1..Len(TabPages) |-> Respond(TabPages[k], k = Len(TabPages))]

\* unnamed/part_003 lines 28-40: the active tab is found and the content
\* script injected, or executeScript rejects and the catch block answers
ExtractInject(i) ==
    /\ ops[i].type = "EXTRACT_ARTICLE"
    /\ ops[i].pc = "start"
    /\ \E rejected \in BOOLEAN :
          IF rejected
          THEN /\ ops' = [ops EXCEPT ![i] = Returned("EXTRACT_ARTICLE")]
               /\ replies' = Reply("EXTRACT_ARTICLE", FALSE,
                                   [error |-> "Extraction failed"])
          ELSE /\ ops' = [ops EXCEPT ![i].pc = "attempt"]
               /\ replies' = replies
    /\ UNCHANGED <<job, net, storage, tab>>
    /\ UNCHANGED <<policy, cmp, sanVars, extVars, uiVars>>

\* unnamed/part_003 lines 41-57: one turn of the retry loop. The message is
\* sent; sendMessage rejects (k = 0), or resolves with the response of the
\* content script on the page as it is then. An answer ends the loop: the article is
\* put in articleCache and setCachedArticle is called.
ExtractAttempt(i) ==
    /\ ops[i].type = "EXTRACT_ARTICLE"
    /\ ops[i].pc = "attempt"
    /\ \E k \in 0..Len(Answers) :
          LET attempt == ops[i].sent
              rejected == k = 0
              response == Answers[k]
          IN IF rejected
             THEN /\ ops' = [ops EXCEPT ![i] = IF LastAttempt(attempt)
                                                THEN Returned("EXTRACT_ARTICLE")
                                                ELSE [@ EXCEPT !.sent = @ + 1]]
                  /\ replies' =
                        IF LastAttempt(attempt)
                        THEN Reply("EXTRACT_ARTICLE", FALSE,
                                   [error |-> "Content script did not respond. Try reloading the page."])
                        ELSE replies
                  /\ UNCHANGED <<storage, articleCache>>
             ELSE IF ~response.ok
             THEN /\ ops' = [ops EXCEPT ![i] = Returned("EXTRACT_ARTICLE")]
                  /\ replies' = Reply("EXTRACT_ARTICLE", FALSE,
                                      [error |-> response.error])
                  /\ UNCHANGED <<storage, articleCache>>
             ELSE /\ ops' = [ops EXCEPT ![i].sent = 0, ![i].pc = "stored",
                                        ![i].article = response.data]
                  /\ articleCache' = (response.data.id :> response.data)
                                         @@ articleCache
                  /\ storage' = [storage EXCEPT !.articles =
                                    (response.data.id :> response.data) @@ @]
                  /\ replies' = replies
    /\ UNCHANGED <<job, net, tab, reader, tts>>
    /\ UNCHANGED <<policy, cmp, sanVars, extVars>>

\* unnamed/part_003 lines 59-63: the reader tab is created for the article
\* and the id returned
ExtractOpen(i) ==
    /\ ops[i].type = "EXTRACT_ARTICLE"
    /\ ops[i].pc = "stored"
    /\ ops' = [ops EXCEPT ![i].pc = "opened"]
    /\ replies' = Reply("EXTRACT_ARTICLE", TRUE, [articleId |-> ops[i].article.id])
    /\ UNCHANGED <<job, net, storage, tab>>
    /\ UNCHANGED <<policy, cmp, sanVars, extVars, uiVars>>

\* unnamed/part_003 lines 71-75: GET_ARTICLE answers from the cache, or
\* calls getCachedArticle
GetArticleHandler(i) ==
    /\ ops[i].type = "GET_ARTICLE"
    /\ ops[i].pc = "start"
    /\ IF PageId \in DOMAIN articleCache
       THEN /\ ops' = [ops EXCEPT ![i] = Returned("GET_ARTICLE")]
            /\ replies' = Reply("GET_ARTICLE", TRUE, getArticle(PageId))
       ELSE /\ ops' = [ops EXCEPT ![i].pc = "read", ![i].article = getArticle(PageId)]
            /\ replies' = replies
    /\ UNCHANGED <<job, net, storage, tab>>
    /\ UNCHANGED <<policy, cmp, sanVars, extVars, uiVars>>

\* unnamed/part_003 lines 75-80: getCachedArticle has resolved
GetArticleRead(i) ==
    /\ ops[i].type = "GET_ARTICLE"
    /\ ops[i].pc = "read"
    /\ ops' = [ops EXCEPT ![i] = Returned("GET_ARTICLE")]
    /\ IF ops[i].article # NoResult
       THEN /\ articleCache' = (PageId :> ops[i].article) @@ articleCache
            /\ replies' = Reply("GET_ARTICLE", TRUE, ops[i].article)
       ELSE /\ articleCache' = articleCache
            /\ replies' = Reply("GET_ARTICLE", FALSE,
                                [error |-> "Article not found in cache"])
    /\ UNCHANGED <<job, net, storage, tab, reader, tts>>
    /\ UNCHANGED <<policy, cmp, sanVars, extVars>>

\* unnamed/part_003 line 193 and part_000 lines 112-114: clearAllCache
\* clears chrome.storage.local; the key and the settings are in
\* chrome.storage.sync
ClearCacheHandler(i) ==
    /\ ops[i].type = "CLEAR_CACHE"
    /\ ops[i].pc = "start"
    /\ ops' = [ops EXCEPT ![i].pc = "cleared"]
    /\ storage' = [EmptyStore EXCEPT !.apiKey = storage.apiKey,
                                   !.readerSettings = storage.readerSettings]
    /\ UNCHANGED <<job, net, replies, tab>>
    /\ UNCHANGED <<policy, cmp, sanVars, extVars, uiVars>>

\* unnamed/part_003 lines 194-195: clearAllCache has resolved
ClearCacheDone(i) ==
    /\ ops[i].type = "CLEAR_CACHE"
    /\ ops[i].pc = "cleared"
    /\ ops' = [ops EXCEPT ![i].pc = "done"]
    /\ articleCache' = <<>>
    /\ replies' = Reply("CLEAR_CACHE", TRUE, NoData)
    /\ UNCHANGED <<job, net, storage, tab, reader, tts>>
    /\ UNCHANGED <<policy, cmp, sanVars, extVars>>

\* the browser stops the idle service worker: unnamed/part_003 line 19 runs
\* again at the next message
Restart ==
    /\ ops # <<>>
    /\ \A i \in 1..Len(ops) : ops[i].pc \in {"done", "opened"}
    /\ articleCache # <<>>
    /\ articleCache' = <<>>
    /\ UNCHANGED <<reader, tts>>
    /\ UNCHANGED bgVars
    /\ UNCHANGED <<policy, cmp, sanVars, extVars>>

ArtNext ==
    \/ ReceiveArticleMessage
    \/ Restart
    \/ \E i \in 1..Len(ops) :
          \/ ExtractInject(i)
          \/ ExtractAttempt(i)
          \/ ExtractOpen(i)
          \/ GetArticleHandler(i)
          \/ GetArticleRead(i)
          \/ ClearCacheHandler(i)
          \/ ClearCacheDone(i)

ArtSpec == SwInit /\ [][ArtNext]_vars

------------------------------------------------------------------------------
(* The service worker's SAVE_SETTINGS handler on the messages of the reader *)
(* page (unnamed/part_003 lines 90-103, unnamed/part_000 lines 15-23)       *)

\* lib/readability lines 316-328: updateSetting sends one key with its new
\* value
Partials == {"fontSize" :> 20, "fontSize" :> 22, "theme" :> "dark"}

\* unnamed/part_000 line 22: { ...current, ...partial }
Merge(current, partial) == partial @@ current

\* the message as its handler holds it: readerSettings, and current once
\* getSettings has resolved
SaveOp(partial) ==
    [type |-> "SAVE_SETTINGS", pc |-> "start", readerSettings |-> partial,
     current |-> <<>>]

ReceiveSaveSettings ==
    /\ Len(ops) < MaxOps
    /\ \E partial \in Partials : ops' = Append(ops, SaveOp(partial))
    /\ UNCHANGED <<job, net, storage, replies, tab>>
    /\ UNCHANGED <<policy, cmp, sanVars, extVars, uiVars>>

\* unnamed/part_003 lines 91-93 and part_000 line 21: saveSettings reads the
\* current settings
SaveSettingsRead(i) ==
    /\ ops[i].type = "SAVE_SETTINGS"
    /\ ops[i].pc = "start"
    /\ ops' = [ops EXCEPT ![i].pc = "read", ![i].current = getSettings]
    /\ UNCHANGED <<job, net, storage, replies, tab>>
    /\ UNCHANGED <<policy, cmp, sanVars, extVars, uiVars>>

\* unnamed/part_000 line 22 and part_003 lines 95-102: the merged settings
\* are written; the message names no API key or model, and is answered
SaveSettingsWrite(i) ==
    /\ ops[i].type = "SAVE_SETTINGS"
    /\ ops[i].pc = "read"
    /\ storage' = [storage EXCEPT !.readerSettings =
                      Merge(ops[i].current, ops[i].readerSettings)]
    /\ ops' = [ops EXCEPT ![i].pc = "done", ![i].current = <<>>]
    /\ replies' = Reply("SAVE_SETTINGS", TRUE, NoData)
    /\ UNCHANGED <<job, net, tab>>
    /\ UNCHANGED <<policy, cmp, sanVars, extVars, uiVars>>

SetNext ==
    \/ ReceiveSaveSettings
    \/ \E i \in 1..Len(ops) :
          \/ SaveSettingsRead(i)
          \/ SaveSettingsWrite(i)

SetSpec == SwInit /\ [][SetNext]_vars

------------------------------------------------------------------------------
(* The service worker's GENERATE_READING_PLAN handler (unnamed/part_003 *)
(* lines 106-124)                                                       *)

\* the extracted article of the requests: three paragraphs of 70 words
PlanArticle ==
    [ok |-> TRUE, id |-> PageId,
     text |-> Join(<<<<Sentence(70, 0)>>, <<Sentence(70, 0)>>,
                     <<Sentence(70, 0)>>>>, 2)]

\* unnamed/part_001 lines 31-64: the plans generateReadingPlan resolves with
\* once its request has ended: the chunks parsed from the content, replaced
\* by localChunk when there are none or too few, or localChunk after a throw
LlmPlans(text) ==
    LET paragraphs == splitParagraphs(text)
        j(parsed) == [pc |-> "running", result |-> <<>>,
                      paragraphs |-> paragraphs,
                      allChunks |-> [k \in 1..Len(parsed) |->
                                       [order |-> k - 1, text |-> parsed[k].text]]]
    IN {localChunk(paragraphs)}
          \cup {PlanReturn(j(parseChunkResponse(c))).result : c \in ChunkContents}

\* the message as its handler holds it; generated tells that the handler
\* has called generateReadingPlan
PlanOp ==
    [type |-> "GENERATE_READING_PLAN", pc |-> "start", generated |-> FALSE]

ReceivePlanMessage ==
    /\ Len(ops) < MaxOps
    /\ ops' = Append(ops, PlanOp)
    /\ UNCHANGED <<job, net, storage, replies, tab>>
    /\ UNCHANGED <<policy, cmp, sanVars, extVars, uiVars>>

\* unnamed/part_003 lines 119-121 and part_000 lines 76-78: setCachedPlan
\* and the response
PlanStore(i, plan) ==
    /\ storage' = [storage EXCEPT !.plans = (PageId :> plan) @@ @]
    /\ ops' = [ops EXCEPT ![i].pc = "done", ![i].generated = TRUE]
    /\ replies' = Reply("GENERATE_READING_PLAN", TRUE, plan)

\* unnamed/part_003 lines 109-111: getCachedPlan and the response with the
\* cached plan
PlanCacheRead(i) ==
    /\ ops[i].type = "GENERATE_READING_PLAN"
    /\ ops[i].pc = "start"
    /\ IF PageId \in DOMAIN storage.plans
       THEN /\ ops' = [ops EXCEPT ![i].pc = "done"]
            /\ replies' = Reply("GENERATE_READING_PLAN", TRUE, storage.plans[PageId])
       ELSE /\ ops' = [ops EXCEPT ![i].pc = "missed"]
            /\ replies' = replies
    /\ UNCHANGED <<job, net, storage, tab>>
    /\ UNCHANGED <<policy, cmp, sanVars, extVars, uiVars>>

\* unnamed/part_003 lines 113-121 and part_001 lines 31-94: the article, the
\* API configuration and the call of generateReadingPlan, which returns the
\* local plan or sends its request
PlanGenerate(i) ==
    /\ ops[i].type = "GENERATE_READING_PLAN"
    /\ ops[i].pc = "missed"
    /\ LET article == getArticle(PageId)
           r == callOpenRouter(getApiConfig.apiKey)
       IN IF article = NoResult
          THEN /\ ops' = [ops EXCEPT ![i].pc = "done"]
               /\ replies' = Reply("GENERATE_READING_PLAN", FALSE,
                                   [error |-> "Article not found"])
               /\ UNCHANGED <<net, storage>>
          ELSE IF ~Truthy(getApiConfig.apiKey) \/ r.threw
          THEN /\ PlanStore(i, localChunk(splitParagraphs(article.text)))
               /\ net' = net
          ELSE /\ ops' = [ops EXCEPT ![i].pc = "awaiting", ![i].generated = TRUE]
               /\ net' = net \o r.sent
               /\ UNCHANGED <<storage, replies>>
    /\ UNCHANGED <<job, tab>>
    /\ UNCHANGED <<policy, cmp, sanVars, extVars, uiVars>>

\* unnamed/part_001 lines 94-133 and 44-64: the request of llmChunk ends and
\* generateReadingPlan resolves
PlanResponse(i) ==
    /\ ops[i].type = "GENERATE_READING_PLAN"
    /\ ops[i].pc = "awaiting"
    /\ \E plan \in LlmPlans(getArticle(PageId).text) : PlanStore(i, plan)
    /\ UNCHANGED <<job, net, tab>>
    /\ UNCHANGED <<policy, cmp, sanVars, extVars, uiVars>>

\* the article has been extracted; a key is stored or not
PlanInit ==
    /\ storage \in {[EmptyStore EXCEPT !.apiKey = k,
                                       !.articles = (PageId :> PlanArticle)] :
                       k \in ApiKeys}
    /\ articleCache = (PageId :> PlanArticle)
    /\ ops = <<>>
    /\ replies = <<>>
    /\ net = <<>>
    /\ job = NoJob
    /\ tab = NoTab
    /\ reader = NoReader
    /\ tts = NoTts
    /\ policy = AllowlistPolicy
    /\ cmp = NoPair
    /\ sanIn = <<>>
    /\ sanBody = <<>>
    /\ sanPc = "off"
    /\ sanRet = <<>>
    /\ sanLog = <<>>
    /\ docs = [h \in {"live", "clone"} |-> NoPage]
    /\ page0 = NoPage
    /\ extPc = "off"
    /\ rdResult = NoResult
    /\ rdSegments = <<>>
    /\ extRet = NoResult

PlanNext ==
    \/ ReceivePlanMessage
    \/ \E i \in 1..Len(ops) :
          \/ PlanCacheRead(i)
          \/ PlanGenerate(i)
          \/ PlanResponse(i)

PlanSpec == PlanInit /\ [][PlanNext]_vars

------------------------------------------------------------------------------
(* The reader page in guided mode (lib/readability lines 389-495) *)

\* the longest reading plan, in chunks
MaxChunks == 3

\* the most requests the page has in flight at a time
MaxPending == 2

\* lib/readability lines 521-524: hideSimplifiedUI, no simplified content
\* is shown
Hidden == -1

\* lib/readability lines 431-455: displayChunk; readingPlan is the number of
\* chunks of the plan (0 for null), simplifiedChunks the keys of the map and
\* visible the chunk whose simplified content showSimplifiedUI has shown
displayChunk(r, index) ==
    IF r.readingPlan = 0 \/ index < 0 \/ index >= r.readingPlan THEN r
    ELSE [r EXCEPT !.currentChunkIndex = index,
                   !.disabled = FALSE,
                   !.visible = IF index \in r.simplifiedChunks THEN index
                               ELSE Hidden]

\* lib/readability lines 389-429: the click on the guided-mode control, with
\* generatePlan up to its await
ClickGuided ==
    /\ reader.pc = "on"
    /\ LET r == [reader EXCEPT !.guidedMode = ~@]
       IN IF r.guidedMode /\ r.readingPlan = 0
          THEN /\ Len(reader.plans) < MaxPending
               /\ reader' = [r EXCEPT !.disabled = TRUE,
                                      !.plans = Append(@, "GENERATE_READING_PLAN")]
          ELSE IF r.guidedMode
          THEN reader' = displayChunk(r, r.currentChunkIndex)
          ELSE reader' = r
    /\ UNCHANGED <<articleCache, tts>>
    /\ UNCHANGED bgVars
    /\ UNCHANGED <<policy, cmp, sanVars, extVars>>

\* lib/readability lines 416-428: generatePlan after its await
PlanReceived ==
    /\ reader.pc = "on"
    /\ reader.plans # <<>>
    /\ \E ok \in BOOLEAN, chunks \in 1..MaxChunks :
          LET r == [reader EXCEPT !.plans = Tail(@)]
          IN reader' = IF ok
                       THEN displayChunk([r EXCEPT !.readingPlan = chunks,
                                                   !.currentChunkIndex = 0], 0)
                       ELSE r
    /\ UNCHANGED <<articleCache, tts>>
    /\ UNCHANGED bgVars
    /\ UNCHANGED <<policy, cmp, sanVars, extVars>>

\* lib/readability lines 457-458: the clicks on Prev and Next
ClickPrevNext ==
    /\ reader.pc = "on"
    /\ reader.guidedMode
    /\ \E step \in {-1, 1} :
          reader' = displayChunk(reader, reader.currentChunkIndex + step)
    /\ UNCHANGED <<articleCache, tts>>
    /\ UNCHANGED bgVars
    /\ UNCHANGED <<policy, cmp, sanVars, extVars>>

\* lib/readability lines 459-479: the click on Simplify up to its await
ClickSimplify ==
    /\ reader.pc = "on"
    /\ reader.guidedMode
    /\ ~reader.disabled
    /\ LET chunk == reader.currentChunkIndex
       IN IF reader.readingPlan = 0 THEN reader' = reader
          ELSE IF chunk \in reader.simplifiedChunks
          THEN reader' = [reader EXCEPT !.visible = chunk]
          ELSE /\ Len(reader.requests) < MaxPending
               /\ reader' = [reader EXCEPT !.disabled = TRUE,
                                           !.requests = Append(@, chunk)]
    /\ UNCHANGED <<articleCache, tts>>
    /\ UNCHANGED bgVars
    /\ UNCHANGED <<policy, cmp, sanVars, extVars>>

\* lib/readability lines 481-494: the click on Simplify after its await, for
\* any of the requests in flight
SimplifyReceived ==
    /\ reader.pc = "on"
    /\ \E k \in 1..Len(reader.requests), ok \in BOOLEAN :
          LET chunk == reader.requests[k]
              r == [reader EXCEPT !.disabled = FALSE,
                                  !.requests = SubSeq(@, 1, k - 1)
                                                  \o SubSeq(@, k + 1, Len(@))]
          IN reader' = IF ok
                       THEN [r EXCEPT !.simplifiedChunks = @ \cup {chunk},
                                      !.visible = chunk]
                       ELSE r
    /\ UNCHANGED <<articleCache, tts>>
    /\ UNCHANGED bgVars
    /\ UNCHANGED <<policy, cmp, sanVars, extVars>>

\* lib/readability lines 210-213: the page has loaded its article
ReaderInit ==
    /\ reader = [pc |-> "on", guidedMode |-> FALSE, readingPlan |-> 0,
                 currentChunkIndex |-> 0, simplifiedChunks |-> {},
                 visible |-> Hidden, disabled |-> FALSE, requests |-> <<>>,
                 plans |-> <<>>]
    /\ articleCache = <<>>
    /\ tts = NoTts
    /\ BgIdle
    /\ policy = AllowlistPolicy
    /\ cmp = NoPair
    /\ sanIn = <<>>
    /\ sanBody = <<>>
    /\ sanPc = "off"
    /\ sanRet = <<>>
    /\ sanLog = <<>>
    /\ docs = [h \in {"live", "clone"} |-> NoPage]
    /\ page0 = NoPage
    /\ extPc = "off"
    /\ rdResult = NoResult
    /\ rdSegments = <<>>
    /\ extRet = NoResult

ReaderNext ==
    \/ ClickGuided
    \/ PlanReceived
    \/ ClickPrevNext
    \/ ClickSimplify
    \/ SimplifyReceived

ReaderSpec == ReaderInit /\ [][ReaderNext]_vars

------------------------------------------------------------------------------
(* Text to speech (modules/explainer lines 105-264) *)

\* the most speak() calls of a run
MaxSpeaks == 3

\* modules/explainer lines 127-139: stop. Utterances and audio elements are
\* named by the speak() call they belong to, 0 stands for null; queue is
\* the queue of speechSynthesis, whose head is being spoken when speaking
\* is set, cancelled the utterances that cancel() has removed and whose
\* error event is pending, playing the audio elements that are playing
stop(t) ==
    LET u == IF t.currentUtterance # 0
             THEN [t EXCEPT !.queue = <<>>, !.speaking = FALSE,
                            !.cancelled = @ \cup {t.queue[k] : k \in 1..Len(t.queue)},
                            !.currentUtterance = 0]
             ELSE t
        a == IF u.currentAudio # 0
             THEN [u EXCEPT !.playing = @ \ {u.currentAudio}, !.currentAudio = 0]
             ELSE u
    IN [a EXCEPT !.isSpeaking = FALSE]

\* modules/explainer lines 172-198: speakWebSpeech for the call id
speakWebSpeech(t, id) ==
    [t EXCEPT !.currentUtterance = id, !.queue = Append(@, id)]

\* modules/explainer lines 112-122 and 203-216: speak, with speakElevenLabs
\* up to its await; last is the call made last, 0 once stop() was called
Speak ==
    /\ tts.pc = "on"
    /\ tts.calls < MaxSpeaks
    /\ \E engine \in {"web", "elevenlabs"}, elevenLabsApiKey \in {"", "xi-1"} :
          LET id == tts.calls + 1
              t == [stop(tts) EXCEPT !.calls = id, !.last = id]
          IN tts' = IF engine = "elevenlabs" /\ Truthy(elevenLabsApiKey)
                    THEN [t EXCEPT !.isSpeaking = TRUE, !.fetches = @ \cup {id}]
                    ELSE speakWebSpeech(t, id)
    /\ UNCHANGED <<articleCache, reader>>
    /\ UNCHANGED bgVars
    /\ UNCHANGED <<policy, cmp, sanVars, extVars>>

\* modules/explainer lines 127-139: the caller stops the speech
Stop ==
    /\ tts.pc = "on"
    /\ tts' = [stop(tts) EXCEPT !.last = 0]
    /\ UNCHANGED <<articleCache, reader>>
    /\ UNCHANGED bgVars
    /\ UNCHANGED <<policy, cmp, sanVars, extVars>>

\* modules/explainer lines 216-263: speakElevenLabs after its awaits: the
\* audio of the response is played, or the request fails, or play() rejects,
\* and the call falls back on speakWebSpeech
FetchDone ==
    /\ tts.pc = "on"
    /\ \E id \in tts.fetches, outcome \in {"played", "failed", "rejected"} :
          LET t == [tts EXCEPT !.fetches = @ \ {id}]
              audio == [t EXCEPT !.currentAudio = id]
          IN tts' = CASE outcome = "played" ->
                           [audio EXCEPT !.playing = @ \cup {id}]
                      [] outcome = "failed" ->
                           speakWebSpeech([t EXCEPT !.isSpeaking = FALSE], id)
                      [] outcome = "rejected" ->
                           speakWebSpeech([audio EXCEPT !.isSpeaking = FALSE], id)
    /\ UNCHANGED <<articleCache, reader>>
    /\ UNCHANGED bgVars
    /\ UNCHANGED <<policy, cmp, sanVars, extVars>>

\* modules/explainer lines 245-249: an audio element has played to its end
AudioEnded ==
    /\ tts.pc = "on"
    /\ \E id \in tts.playing :
          tts' = [tts EXCEPT !.playing = @ \ {id}, !.isSpeaking = FALSE,
                             !.currentAudio = 0]
    /\ UNCHANGED <<articleCache, reader>>
    /\ UNCHANGED bgVars
    /\ UNCHANGED <<policy, cmp, sanVars, extVars>>

\* modules/explainer lines 178-181: speechSynthesis begins the utterance at
\* the head of its queue
UtteranceStart ==
    /\ tts.pc = "on"
    /\ tts.queue # <<>>
    /\ ~tts.speaking
    /\ tts' = [tts EXCEPT !.speaking = TRUE, !.isSpeaking = TRUE]
    /\ UNCHANGED <<articleCache, reader>>
    /\ UNCHANGED bgVars
    /\ UNCHANGED <<policy, cmp, sanVars, extVars>>

\* modules/explainer lines 182-191: the utterance being spoken ends, or the
\* error event of a cancelled utterance is delivered
UtteranceEnd ==
    /\ tts.pc = "on"
    /\ \/ /\ tts.speaking
          /\ tts' = [tts EXCEPT !.queue = Tail(@), !.speaking = FALSE,
                                !.isSpeaking = FALSE, !.currentUtterance = 0]
       \/ \E id \in tts.cancelled :
             tts' = [tts EXCEPT !.cancelled = @ \ {id}, !.isSpeaking = FALSE,
                                !.currentUtterance = 0]
    /\ UNCHANGED <<articleCache, reader>>
    /\ UNCHANGED bgVars
    /\ UNCHANGED <<policy, cmp, sanVars, extVars>>

\* modules/explainer lines 105-107: the module is loaded
TtsInit ==
    /\ tts = [pc |-> "on", calls |-> 0, last |-> 0, currentUtterance |-> 0,
              currentAudio |-> 0, isSpeaking |-> FALSE, fetches |-> {},
              queue |-> <<>>, speaking |-> FALSE, cancelled |-> {},
              playing |-> {}]
    /\ articleCache = <<>>
    /\ reader = NoReader
    /\ BgIdle
    /\ policy = AllowlistPolicy
    /\ cmp = NoPair
    /\ sanIn = <<>>
    /\ sanBody = <<>>
    /\ sanPc = "off"
    /\ sanRet = <<>>
    /\ sanLog = <<>>
    /\ docs = [h \in {"live", "clone"} |-> NoPage]
    /\ page0 = NoPage
    /\ extPc = "off"
    /\ rdResult = NoResult
    /\ rdSegments = <<>>
    /\ extRet = NoResult

TtsNext ==
    \/ Speak
    \/ Stop
    \/ FetchDone
    \/ AudioEnded
    \/ UtteranceStart
    \/ UtteranceEnd

TtsSpec == TtsInit /\ [][TtsNext]_vars

-----------------------------------------------------------------------------
(* Claims on sanitizeHtml *)

OpenTags(html) == SelectSeq(html, LAMBDA t : t.k = "open")

TokenAllowed(t) ==
    /\ t.tag \in ALLOWED_TAGS
    /\ \A i \in 1..Len(t.attrs) : t.attrs[i].name \in ALLOWED_ATTRS(t.tag)

TokenHasJsUri(t) ==
    \E i \in 1..Len(t.attrs) :
        t.attrs[i].name \in {"href", "src"} /\ IsJavascriptUri(t.attrs[i].value)

\* what a node is, without its children
Label(n) == IF IsElement(n) THEN [tag |-> n.tag] ELSE [data |-> n.data, type |-> n.type]
Labels(kids) == LET d == Descendants(kids) IN [i \in 1..Len(d) |-> Label(d[i])]

\* a is b with some entries left out, the order kept
RECURSIVE IsSubsequence(_, _)
IsSubsequence(a, b) ==
    IF a = <<>> THEN TRUE
    ELSE IF b = <<>> THEN FALSE
    ELSE IF Head(a) = Head(b) THEN IsSubsequence(Tail(a), Tail(b))
    ELSE IsSubsequence(a, Tail(b))

\* C1: every element of sanitizeHtml's output has an allowed tag, and each of
\* its attributes is in that tag's allowed-attribute set, at every depth.
C1_AllowlistClosure ==
    sanPc = "returned" =>
        \A i \in 1..Len(OpenTags(sanRet)) : TokenAllowed(OpenTags(sanRet)[i])

\* C2: sanitizeHtml's output has no <script> element and no href or src
\* whose value has the javascript: scheme.
C2_NoScriptSurface ==
    sanPc = "returned" =>
        \A i \in 1..Len(OpenTags(sanRet)) :
            /\ OpenTags(sanRet)[i].tag # "script"
            /\ ~TokenHasJsUri(OpenTags(sanRet)[i])

\* C4: sanitizeHtml(sanitizeHtml(x)) = sanitizeHtml(x).
C4_Idempotent ==
    (Len(sanLog) >= 2 /\ sanLog[2].ret # <<>> /\ sanPc = "returned")
        => sanLog[2].ret = sanLog[1].ret

\* C5: cleaning drops no text node and keeps the order of content: the text
\* nodes of the cleaned tree are those of the parsed tree, in the same
\* order, every node that is left stands in the order it had, and
\* <aside><p>Keep me</p></aside> becomes <p>Keep me</p>.
C5_UnwrapPreservesContent ==
    sanPc \in {"cleaned", "returned"} =>
        LET call == sanLog[Len(sanLog)] IN
        /\ TextNodes(sanBody) = TextNodes(call.parsed)
        /\ IsSubsequence(Labels(sanBody), Labels(call.parsed))
        /\ call.parsed = AsideExample
              => sanBody = <<Element("p", <<>>, <<Text("Keep me")>>)>>

\* a disallowed element holding a text node and an element has been unwrapped
C5_Witness ==
    /\ sanPc = "cleaned"
    /\ sanLog[1].parsed =
          <<Element("foo", <<>>, <<Text("x"), Element("span", <<>>, <<>>)>>)>>
    /\ sanBody = <<Text("x"), Element("span", <<>>, <<>>)>>

-----------------------------------------------------------------------------
(* Claims on extractArticle and parseReadability *)

EventHandlerAttrs == {"onclick", "onerror", "onload", "onmouseover", "onfocus"}

TokenHasHandler(t) ==
    \E i \in 1..Len(t.attrs) : t.attrs[i].name \in EventHandlerAttrs

\* the text s is one of the text nodes
Contains(segs, s) == \E i \in 1..Len(segs) : segs[i] = s

\* C3: the contentHtml of every Article extractArticle returns has no
\* <script> element, no event-handler attribute, no javascript: href or src
\* and no tag outside the allowlist.
C3_ArticleHtmlSafe ==
    (extPc = "done" /\ extRet.ok) =>
        \A i \in 1..Len(OpenTags(extRet.contentHtml)) :
            LET t == OpenTags(extRet.contentHtml)[i] IN
            /\ t.tag # "script"
            /\ t.tag \in ALLOWED_TAGS
            /\ ~TokenHasHandler(t)
            /\ ~TokenHasJsUri(t)

\* C6: the document handed to parseReadability is, after the call and at
\* every later point, what it was before the call.
C6_CallerDocumentUntouched ==
    extPc # "off" => docs["live"] = page0

\* parseReadability has returned a result after removing noise from its clone
C6_Witness ==
    /\ extPc = "parsed"
    /\ rdResult.ok
    /\ docs["clone"] # NoPage
    /\ docs["clone"] # page0

\* C7: extractArticle returns null when no candidate element is found or
\* the trimmed text of the selected element has fewer than 100 characters;
\* every Article returned has a text of at least 100 characters.
C7_MinimumLength ==
    extPc = "done" =>
        LET selected == findArticleContent(docs["clone"]) IN
        /\ (selected = <<>> \/ Len(TrimmedText(selected[1].kids)) < 100) => ~extRet.ok
        /\ extRet.ok => Len(extRet.text) >= 100

\* a 99-character article has been rejected
C7_Witness ==
    /\ extPc = "done"
    /\ rdResult.ok
    /\ Len(rdResult.textContent) = 99
    /\ ~extRet.ok

\* C8: for the page whose <article> interleaves paragraphs with ad blocks
\* (class "ad-container", id "google-ads", class "advertisement") the result's
\* textContent has every real paragraph and none of the ad texts.
C8_AdsRemoved ==
    (extPc = "parsed" /\ page0 = AdsPage) =>
        /\ rdResult.ok
        /\ Contains(rdSegments, "Main content paragraph 1.")
        /\ Contains(rdSegments, "Main content paragraph 2.")
        /\ ~Contains(rdSegments, "Buy this product!")
        /\ ~Contains(rdSegments, "Ad content")
        /\ ~Contains(rdSegments, "Another ad")

\* C9: for an <article> with paragraphs, an "Also read:" label and the
\* related links after it, the result's textContent has the paragraphs and
\* neither the label nor the text of the related links.
C9_AlsoReadRemoved ==
    /\ (extPc = "parsed" /\ page0 = AlsoReadPage) =>
          /\ rdResult.ok
          /\ Contains(rdSegments, "Main content.")
          /\ ~Contains(rdSegments, "Also read:")
          /\ ~Contains(rdSegments, "Related Article 1")
          /\ ~Contains(rdSegments, "Related Article 2")
    /\ (extPc = "parsed" /\ page0 = CorruptionPage) =>
          /\ rdResult.ok
          /\ Contains(rdSegments, "Singapore's performance was underpinned by robust legislations.")
          /\ ~Contains(rdSegments, "Also read:")
          /\ ~Contains(rdSegments, "Inside the CPIB: Meet the officers tackling corruption in Singapore")

\* C10: an element of the article whose text is a distractor phrase such as
\* "Sign up for our newsletters" is removed: the phrase is not in the
\* result's textContent, the main content is.
C10_DistractorPhraseRemoved ==
    (extPc = "parsed" /\ page0 \in {NewsletterPage, CorruptionPage}) =>
        /\ rdResult.ok
        /\ \/ Contains(rdSegments, "Main content.")
           \/ Contains(rdSegments, "The bureau also pointed to Singapore's top ranking.")
        /\ ~Contains(rdSegments, "Sign up for our newsletters")


-----------------------------------------------------------------------------
(* Claims on findArticleContent and extractTitle *)

\* the clone parseReadability searched, once the noise is out of it
Cleaned == docs["clone"]

Articles == querySelectorAll(Cleaned.kids, {TagSel("article")})

Landmarks ==
    querySelectorAll(Cleaned.kids, {TagSel("main"), AttrSel("*", "role", "main")})

TextLen(el) == Len(textContent(el.kids))

\* the element the locator picks in the searched clone
Selected == findArticleContent(Cleaned)

\* C11: of several <article>s the one with the longest text is selected if
\* that text is longer than 200 characters; if none is, no <article> is
\* selected and the later strategies decide.
C11_LongestArticleWins ==
    (extPc # "start" /\ Len(Articles) > 1) =>
        IF \E i \in 1..Len(Articles) : TextLen(Articles[i]) > 200
        THEN /\ Selected # <<>>
             /\ \E i \in 1..Len(Articles) : Selected[1] = Articles[i]
             /\ \A j \in 1..Len(Articles) : TextLen(Articles[j]) <= TextLen(Selected[1])
             /\ rdResult.ok /\ rdResult.textContent = TrimmedText(Selected[1].kids)
        ELSE Selected = <<>> \/ Selected[1].tag # "article"

C11_Witness ==
    /\ extPc = "parsed"
    /\ Len(Articles) = 2
    /\ TextLen(Articles[1]) = 50
    /\ TextLen(Articles[2]) = 500
    /\ rdResult.ok
    /\ Len(rdResult.textContent) = 500

\* C12: a lone <article> is selected whatever its text length and whatever
\* <main>, div or section stands beside it.
C12_LoneArticleWins ==
    (extPc # "start" /\ Len(Articles) = 1) =>
        /\ Selected = <<Articles[1]>>
        /\ rdResult.ok
        /\ rdResult.textContent = TrimmedText(Articles[1].kids)

C12_Witness ==
    /\ extPc = "parsed"
    /\ Len(Articles) = 1
    /\ TextLen(Articles[1]) = 50
    /\ \E i \in 1..Len(Landmarks) : TextLen(Landmarks[i]) > 200
    /\ rdResult.ok
    /\ rdResult.textContent = T50

\* no <article> strategy succeeds
NoArticleFound ==
    \/ Articles = <<>>
    \/ Len(Articles) > 1 /\ \A i \in 1..Len(Articles) : TextLen(Articles[i]) <= 200

\* what container scoring selects: the first div/section of the highest
\* score, if that score is above zero
ScoringSelects(sel) ==
    LET cs == Candidates(Cleaned)
    IN IF \A i \in 1..Len(cs) : Score(cs[i]) <= 0 THEN sel = <<>>
       ELSE \E i \in 1..Len(cs) :
               /\ sel = <<cs[i].el>>
               /\ \A j \in 1..Len(cs) : Score(cs[j]) <= Score(cs[i])
               /\ \A j \in 1..(i - 1) : Score(cs[j]) < Score(cs[i])

\* C13 as stated: with no <article> found, any <main> or role="main" element
\* is the selected one exactly if its text is longer than 200 characters.
C13_AnyLandmark ==
    (extPc # "start" /\ NoArticleFound) =>
        \A i \in 1..Len(Landmarks) :
            (Selected = <<Landmarks[i]>>) <=> (TextLen(Landmarks[i]) > 200)

\* C13: with no <article> found, the first <main> or role="main" element in
\* document order is selected by the landmark strategy exactly if its text
\* is longer than 200 characters; otherwise container scoring selects.
C13_FirstLandmark ==
    (extPc # "start" /\ NoArticleFound) =>
        IF Landmarks # <<>> /\ TextLen(Landmarks[1]) > 200
        THEN Selected = <<Landmarks[1]>>
        ELSE ScoringSelects(Selected)

C13_Witness ==
    /\ extPc = "parsed"
    /\ NoArticleFound
    /\ Len(Landmarks) = 2
    /\ TextLen(Landmarks[1]) = 100
    /\ TextLen(Landmarks[2]) = 201
    /\ Selected = <<>>
    /\ ~rdResult.ok

ChildParagraphs(el) == SelectSeq(el.kids, LAMBDA n : IsElement(n) /\ n.tag = "p")

\* the score C14 gives a div/section: its child paragraphs only
ChildScore(c) == SumParagraphs(ChildParagraphs(c.el), 1) - 10 * c.depth

\* C14: when container scoring is reached, the selected element is a
\* div/section of the highest score, the score being the summed text length
\* of its child paragraphs longer than 40 characters minus 10 times its
\* depth; with no score above zero the result is null.
C14_ChildParagraphScore ==
    (extPc # "start" /\ NoArticleFound /\ MainLandmark(Cleaned) = <<>>) =>
        LET cs == Candidates(Cleaned)
        IN IF \A i \in 1..Len(cs) : ChildScore(cs[i]) <= 0
           THEN Selected = <<>> /\ ~rdResult.ok
           ELSE \E i \in 1..Len(cs) :
                   /\ Selected = <<cs[i].el>>
                   /\ \A j \in 1..Len(cs) : ChildScore(cs[j]) <= ChildScore(cs[i])

OgTitles == querySelectorAll(Cleaned.kids, {AttrSel("meta", "property", "og:title")})
Headings == querySelectorAll(Cleaned.kids, {TagSel("h1")})
DocTitles == querySelectorAll(Cleaned.kids, {TagSel("title")})
HasHeadingText == Headings # <<>> /\ textContent(Headings[1].kids) # ""
HasDocTitle == DocTitles # <<>> /\ TrimmedText(DocTitles[1].kids) # ""

C16_DocumentTitleReturned ==
    /\ (extPc # "start" /\ HasDocTitle /\ OgTitles = <<>>
          /\ \E i \in 1..Len(Articles) :
                querySelectorAll(Articles[i].kids, {TagSel("h1")}) # <<>>) =>
            rdResult.ok /\ rdResult.title = TrimmedText(DocTitles[1].kids)
    /\ (extPc # "start" /\ page0 = BasicPage) =>
            /\ rdResult.ok
            /\ rdResult.title = "Test Article"
            /\ Contains(rdSegments, "This is the main content of the article.")

-----------------------------------------------------------------------------
(* Claims on lib/sanitize: URIs, comments, the allowlist *)

AllowedElements(kids) ==
    SelectSeq(Descendants(kids), LAMBDA n : IsElement(n) /\ n.tag \in ALLOWED_TAGS)

HasJavascript(el, name) ==
    hasAttribute(el, name) /\ IsJavascriptUri(getAttribute(el, name))

\* C17: cleaning keeps every allowed element; one that came with a
\* javascript: href leaves with the href "#", one that came with a
\* javascript: src leaves without a src attribute.
C17_JavascriptUriNeutralised ==
    sanPc \in {"cleaned", "returned"} =>
        LET before == AllowedElements(sanLog[Len(sanLog)].parsed)
            after == AllowedElements(sanBody)
        IN /\ Len(after) = Len(before)
           /\ \A i \in 1..Len(before) :
                /\ after[i].tag = before[i].tag
                /\ HasJavascript(before[i], "href") =>
                      hasAttribute(after[i], "href") /\ getAttribute(after[i], "href") = <<"#">>
                /\ HasJavascript(before[i], "src") => ~hasAttribute(after[i], "src")

\* C18: the output of sanitizeHtml holds no comment, wherever the comment
\* stood in the input.
C18_NoComment ==
    sanPc = "returned" => \A i \in 1..Len(sanRet) : sanRet[i].k # "comment"

\* C19: the allowed tags are exactly the 36 listed, the allowed attributes
\* exactly href, title on a; src, alt, title, width, height on img; colspan,
\* rowspan on td and on th; and no call of sanitizeHtml changes either.
C19_AllowlistExact ==
    /\ policy.tags =
          {"p", "br", "hr", "h1", "h2", "h3", "h4", "h5", "h6", "ul", "ol", "li",
           "blockquote", "pre", "code", "em", "strong", "b", "i", "u", "sub",
           "sup", "mark", "a", "img", "figure", "figcaption", "table", "thead",
           "tbody", "tr", "th", "td", "span", "div", "section"}
    /\ policy.attrs =
          ({"a"} \X {"href", "title"})
             \cup ({"img"} \X {"src", "alt", "title", "width", "height"})
             \cup ({"td", "th"} \X {"colspan", "rowspan"})

C19_Witness ==
    /\ sanPc = "returned"
    /\ Len(sanLog) = 2
    /\ sanLog[1].parsed # <<>>
    /\ Cardinality(policy.tags) = 36
    /\ Cardinality(policy.attrs) = 11

\* C20: the DOMPurify-backed variant keeps the same tags as the allowlist
\* variant, and keeps an attribute on a tag exactly when the allowlist
\* variant does.
C20_VariantsAgree ==
    (cmp.lite # NoVerdict /\ cmp.lib # NoVerdict) => cmp.lite = cmp.lib

-----------------------------------------------------------------------------
(* Claims on failures and on the article id *)

\* C21: parseReadability ends with a result or with null, never with an
\* exception, also when a step inside it raises; a page without a byline
\* still gets a result, whose byline is null.
C21_NeverThrows ==
    extPc # "start" =>
        /\ "threw" \notin DOMAIN rdResult
        /\ rdResult = NoResult \/ rdResult.ok
        /\ extPc = "caught" => rdResult = NoResult
        /\ (extPc = "parsed" /\ Selected # <<>>) =>
              rdResult.ok /\ rdResult.byline = extractByline(Cleaned, 1)
        /\ (extPc = "parsed" /\ Selected # <<>> /\ extractByline(page0, 1) = <<>>) =>
              rdResult.ok /\ rdResult.byline = <<>>

\* a step raised on a page whose article the locator finds
C21_Witness ==
    /\ extPc = "caught"
    /\ rdResult = NoResult
    /\ Selected # <<>>

\* the 31-multiplier hash of a URL modulo 2^32, as 16-bit halves
RECURSIVE Hash31(_, _)
Hash31(url, n) ==
    IF n = 0 THEN [hi |-> 0, lo |-> 0]
    ELSE LET h == Hash31(url, n - 1)
             lo == h.lo * 31 + url[n]
         IN [hi |-> (h.hi * 31 + lo \div 65536) % 65536, lo |-> lo % 65536]

\* the number a sequence of base-36 digits stands for, as 16-bit halves
RECURSIVE Value36(_, _)
Value36(ds, n) ==
    IF n = 0 THEN [hi |-> 0, lo |-> 0]
    ELSE LET v == Value36(ds, n - 1)
             lo == v.lo * 36 + (CHOOSE k \in 0..35 : Base36[k + 1] = ds[n])
         IN [hi |-> v.hi * 36 + lo \div 65536, lo |-> lo % 65536]

\* a is the absolute value of the signed 32-bit integer h
IsMagnitude(a, h) ==
    IF h.hi < 32768 THEN a = h
    ELSE /\ a.hi <= 32768
         /\ (a.lo + h.lo) % 65536 = 0
         /\ (a.hi + h.hi + (a.lo + h.lo) \div 65536) % 65536 = 0

\* C22: the id of a returned Article is "art_" followed by the base-36 form
\* of the absolute value of the 31-multiplier hash of the page URL wrapped
\* to a signed 32-bit integer: a function of the URL alone, the same for
\* every content found at that URL.
C22_IdFromUrlAlone ==
    (extPc = "done" /\ extRet.ok) =>
        LET id == extRet.id
            ds == SubSeq(id, 5, Len(id))
        IN /\ Len(id) >= 5
           /\ SubSeq(id, 1, 4) = <<"a", "r", "t", "_">>
           /\ \A i \in 1..Len(ds) : \E k \in 1..36 : Base36[k] = ds[i]
           /\ Len(ds) > 1 => ds[1] # "0"
           /\ IsMagnitude(Value36(ds, Len(ds)), Hash31(page0.url, Len(page0.url)))

\* an Article at a URL whose hash has wrapped to a negative integer
C22_Witness ==
    /\ extPc = "done"
    /\ extRet.ok
    /\ Len(page0.url) = 5
    /\ Hash31(page0.url, 5).hi >= 32768
    /\ extRet.text = T201

-----------------------------------------------------------------------------
(* Claims on the reading plan and on the calls of the LLM *)

\* C23: every chunk of a reading plan, made by the LLM or locally, has
\* between 80 and 180 words.
C23_ChunkWordBounds ==
    (job.fn = "generateReadingPlan" /\ job.pc = "resolved") =>
        \A i \in 1..Len(job.result) :
            /\ WordCount(job.result[i].text) >= 80
            /\ WordCount(job.result[i].text) <= 180

\* what each of the three functions computes without the LLM
LocalResult(fn, text) ==
    CASE fn = "generateReadingPlan" -> localChunk(splitParagraphs(text))
      [] fn = "simplifyChunk" -> localSimplify(text)
      [] fn = "explainText" -> localExplain(text)

\* C24: with an empty apiKey, generateReadingPlan, simplifyChunk and
\* explainText send no request, never reject, and once run are resolved
\* with the local result.
C24_NoKeyNoRequest ==
    (job.pc # "off" /\ job.apiKey = "") =>
        /\ net = <<>>
        /\ job.pc \in {"called", "resolved"}
        /\ job.pc = "resolved" => job.result = LocalResult(job.fn, job.text)

\* explainText resolved without a key
C24_Witness ==
    /\ job.pc = "resolved"
    /\ job.apiKey = ""
    /\ job.fn = "explainText"
    /\ job.result.explanation.quoted = job.text

\* the chunks llmChunk pushes for the content of a response
Pushed(j, content) ==
    LET parsed == parseChunkResponse(content)
    IN j.allChunks \o [i \in 1..Len(parsed) |->
                         [order |-> Len(j.allChunks) + i - 1,
                          text |-> parsed[i].text]]

\* C28: llmChunk makes at most two requests for a batch; the second is made
\* if and only if the first response parses to no valid chunk, and the
\* chunks of the second response are then the batch's chunks.
C28_OneRetry ==
    /\ [](job.pc \in {"attempt1", "attempt2", "resolved"}
            /\ job.fn = "generateReadingPlan" =>
              /\ \A b \in 1..Len(job.calls) : job.calls[b] \in {1, 2}
              /\ Len(job.calls) <= Len(job.batches)
              /\ job.pc = "attempt2" =>
                    /\ job.calls[job.bi] = 2
                    /\ parseChunkResponse(job.response[1]) = <<>>)
    /\ [][job.pc = "attempt1" /\ ~job'.threw =>
              /\ job'.pc = "attempt2" <=>
                     parseChunkResponse(job'.response[1]) = <<>>
              /\ job'.pc = "attempt2" =>
                     /\ Len(net') = Len(net) + 1
                     /\ job'.bi = job.bi
                     /\ job'.allChunks = job.allChunks
              /\ job'.pc # "attempt2" =>
                     /\ job'.calls[job.bi] = 1
                     /\ job'.allChunks = Pushed(job, job'.response[1])]_vars
    /\ [][job.pc = "attempt2" /\ ~job'.threw =>
              /\ job'.pc # "attempt2"
              /\ job'.calls[job.bi] = 2
              /\ job'.allChunks = Pushed(job, job'.response[1])
              /\ job'.pc = "attempt1" => job'.bi = job.bi + 1]_vars

\* a plan of two batches: the first took a retry, the second did not
C28_Witness ==
    /\ job.pc = "resolved"
    /\ job.fn = "generateReadingPlan"
    /\ ~job.threw
    /\ job.calls = <<2, 1>>
    /\ Len(net) = 3

\* C29: generateReadingPlan never rejects and resolves with a plan: the local
\* plan when a request throws, when no batch gives a valid chunk, or when
\* the LLM's plan has fewer than 3 chunks for 3 paragraphs or more, and
\* the LLM's plan otherwise.
C29_AlwaysAPlan ==
    job.fn = "generateReadingPlan" =>
        /\ job.pc # "rejected"
        /\ job.pc = "resolved" =>
              job.result =
                  IF \/ job.apiKey = ""
                     \/ job.threw
                     \/ Len(job.allChunks) = 0
                     \/ Len(job.allChunks) < 3 /\ Len(job.paragraphs) >= 3
                  THEN localChunk(splitParagraphs(job.text))
                  ELSE job.allChunks

\* a request of the second batch has thrown after the first batch gave chunks
C29_Witness ==
    /\ job.pc = "resolved"
    /\ job.fn = "generateReadingPlan"
    /\ job.threw
    /\ Len(job.allChunks) >= 3
    /\ job.result # job.allChunks
    /\ Len(job.result) > 0

-----------------------------------------------------------------------------
(* Claims on the service worker: the glossary and the API key *)

\* C25: whatever SAVE_GLOSSARY_ENTRY and SIMPLIFY_CHUNK messages are
\* handled, one after the other or overlapping, no two entries of the stored
\* glossary have terms that are equal up to case.
C25_GlossaryDeduplicated ==
    \A i, k \in 1..Len(storage.glossary) :
        i # k => ToLowerCase(storage.glossary[i].term)
                     # ToLowerCase(storage.glossary[k].term)

\* two overlapping saves of terms equal up to case: both have read the empty
\* glossary and both have written
C25_Witness ==
    /\ Len(ops) = 2
    /\ \A i \in 1..2 : /\ ops[i].type = "SAVE_GLOSSARY_ENTRY"
                       /\ ops[i].pc = "done"
                       /\ Len(ops[i].snapshot) = 1
    /\ ops[1].snapshot # ops[2].snapshot
    /\ Len(storage.glossary) = 1

\* C26: no response of the service worker carries the stored API key, and
\* every request that carries it goes to the OpenRouter endpoint.
C26_KeyConfined ==
    /\ \A i \in 1..Len(replies) :
          "apiKey" \in DOMAIN replies[i].data => replies[i].data.apiKey = ""
    /\ \A i \in 1..Len(net) :
          net[i].key # "" =>
              net[i].url = "https://openrouter.ai/api/v1/chat/completions"

-----------------------------------------------------------------------------
(* Claims on the sanitiser's traversal *)

\* a child list without its comments, at every depth
RECURSIVE WithoutComments(_)
WithoutComments(kids) ==
    IF kids = <<>> THEN <<>>
    ELSE LET n == Head(kids)
         IN (CASE n.type = "comment" -> <<>>
               [] n.type = "element" -> <<[n EXCEPT !.kids = WithoutComments(@)]>>
               [] OTHER -> <<n>>)
            \o WithoutComments(Tail(kids))

\* the child list after a traversal that subjects every element to the tag
\* check, the attribute stripping and the recursive cleaning: the children
\* of an unwrapped element and its following siblings included
RECURSIVE VisitEvery(_)
VisitEvery(kids) ==
    IF kids = <<>> THEN <<>>
    ELSE LET n == Head(kids)
         IN (CASE n.type = "comment" -> <<>>
               [] n.type = "element" ->
                    IF n.tag \notin ALLOWED_TAGS THEN VisitEvery(n.kids)
                    ELSE <<[FixSrc(FixHref(StripAttrs(n)))
                               EXCEPT !.kids = VisitEvery(@)]>>
               [] OTHER -> <<n>>)
            \o VisitEvery(Tail(kids))

\* C27: cleanNode visits every element of the parsed fragment: what it
\* leaves of the elements is what the tag check, the attribute stripping and
\* the recursive cleaning leave when applied to each of them, the children
\* of unwrapped elements and the siblings after them included.
C27_EveryElementVisited ==
    sanPc = "cleaned" =>
        WithoutComments(sanBody) = VisitEvery(sanLog[Len(sanLog)].parsed)

-----------------------------------------------------------------------------
(* Claims on the content script *)

\* C30: however many times the content script is injected into the page, one
\* EXTRACT_ARTICLE listener is registered, and each EXTRACT_ARTICLE message
\* is answered exactly once, by {ok: true, data: article} or by
\* {ok: false, error}.
C30_OneListenerOneAnswer ==
    (tab.pc = "on" /\ tab.injections >= 1) =>
        /\ tab.listeners = 1
        /\ \A m \in 1..Len(tab.answers) :
              /\ Len(tab.answers[m]) = 1
              /\ LET r == tab.answers[m][1]
                 IN IF r.ok THEN DOMAIN r = {"ok", "data"} /\ r.data.ok
                    ELSE DOMAIN r = {"ok", "error"}

\* three injections, and three messages answered: an article among the
\* answers
C30_Witness ==
    /\ tab.pc = "on"
    /\ tab.injections = 3
    /\ Len(tab.answers) = 3
    /\ tab.answers[1][1].ok
    /\ ~tab.answers[2][1].ok

------------------------------------------------------------------------------
(* Claims on the article handlers *)

NoAnswer == "Content script did not respond. Try reloading the page."

Extractions == {i \in 1..Len(ops) : ops[i].type = "EXTRACT_ARTICLE"}

\* the extractions whose article is in articleCache and in storage
Stored == {i \in Extractions : ops[i].pc \in {"stored", "opened"}}

\* C31: one EXTRACT_ARTICLE request sends at most 3 messages to the content
\* script (a message is sent only after fewer than 3), goes on to another
\* attempt only when the last one was not answered, and is answered
\* "Content script did not respond" only when its third attempt fails
C31_BoundedRetry ==
    /\ [](\A i \in Extractions : ops[i].pc = "attempt" => ops[i].sent < 3)
    /\ [][\A i \in Extractions :
             /\ (ops[i].pc = "attempt" /\ ops'[i].pc = "attempt"
                     /\ ops'[i] # ops[i])
                   => /\ ops'[i].sent = ops[i].sent + 1
                      /\ replies' = replies
                      /\ articleCache' = articleCache
                      /\ storage' = storage
             /\ (ops'[i] # ops[i] /\ replies' # replies
                     /\ replies'[Len(replies')].data = [error |-> NoAnswer])
                   => ops[i].pc = "attempt" /\ ops[i].sent = 2]_vars

\* a request gave up after three unanswered attempts while another is about
\* to send its third message
C31_Witness ==
    /\ \E i \in Extractions : ops[i].pc = "attempt" /\ ops[i].sent = 2
    /\ \E k \in 1..Len(replies) : replies[k].data = [error |-> NoAnswer]

ClearStarted ==
    \E i \in 1..Len(ops) : ops[i].type = "CLEAR_CACHE" /\ ops[i].pc # "start"

ClearReplies == {k \in 1..Len(replies) : replies[k].type = "CLEAR_CACHE"}
ExtractReplies ==
    {k \in 1..Len(replies) :
        replies[k].type = "EXTRACT_ARTICLE" /\ replies[k].ok}

\* C34: once CLEAR_CACHE has responded ok and no extraction has stored the
\* article since (every successful extraction responded before it, none is
\* about to respond, and persistent storage does not hold the article),
\* GET_ARTICLE answers "Article not found in cache"
C34_ClearEffective ==
    (/\ \E c \in ClearReplies : \A e \in ExtractReplies : e < c
     /\ \A i \in Extractions : ops[i].pc # "stored"
     /\ PageId \notin DOMAIN storage.articles)
        => getArticle(PageId) = NoResult

------------------------------------------------------------------------------
(* Claims on SAVE_SETTINGS *)

Saves == {i \in 1..Len(ops) : ops[i].type = "SAVE_SETTINGS"}

\* the requests that name a key
Naming(key) == {i \in Saves : key \in DOMAIN ops[i].readerSettings}

\* C35: once the SAVE_SETTINGS requests have completed, every reader
\* setting that some request named has the value of one of the requests
\* that named it, and every other setting is unchanged
C35_NoUpdateLost ==
    (\A i \in Saves : ops[i].pc = "done") =>
        \A key \in DOMAIN getSettings :
            IF Naming(key) = {}
            THEN getSettings[key] = getDefaults[key]
            ELSE \E i \in Naming(key) :
                    getSettings[key] = ops[i].readerSettings[key]

------------------------------------------------------------------------------
(* Claims on GENERATE_READING_PLAN *)

PlanReplies ==
    {k \in 1..Len(replies) :
        replies[k].type = "GENERATE_READING_PLAN" /\ replies[k].ok}

\* C36: over the GENERATE_READING_PLAN requests for one article id, at most
\* one handler calls generateReadingPlan and all the responses carry the
\* same plan
C36_OnePlan ==
    /\ Cardinality({i \in 1..Len(ops) : ops[i].generated}) <= 1
    /\ \A k, l \in PlanReplies : replies[k].data = replies[l].data

------------------------------------------------------------------------------
(* Claims on the reader page *)

\* C37: in guided mode, the simplified content that is visible is the
\* simplification of the chunk at currentChunkIndex
C37_SimplifiedOfDisplayedChunk ==
    (reader.pc = "on" /\ reader.guidedMode /\ reader.visible # Hidden)
        => reader.visible = reader.currentChunkIndex

------------------------------------------------------------------------------
(* Claims on text to speech *)

\* the speak() calls whose speech is heard
Sounding ==
    tts.playing \cup (IF tts.speaking THEN {Head(tts.queue)} ELSE {})

\* C32: the only speech heard is that of the speak() call made last, and
\* none once stop() was called after it: a speak() call stops the previous
\* speech, and no speech of an earlier or stopped call starts later
C32_SingleSpeech == tts.pc = "on" => Sounding \subseteq {tts.last} \ {0}

====
